---- MODULE Spec2Model ----
(***************************************************************************)
(* A model of the microvm-operator reconcilers: MicrovmDeployment ->       *)
(* MicrovmReplicaSet -> Microvm, the flintlock provisioner they drive and  *)
(* the object store (API server) they read and patch.                      *)
(*                                                                         *)
(* Every Reconcile call is one action.  Its inputs (which store or         *)
(* provisioner call fails, what the provisioner answers) are drawn with \E *)
(* from the fault sets below.  The variable "last" records what the call   *)
(* of the latest step saw, did and returned.                               *)
(***************************************************************************)
EXTENDS Integers, Sequences, FiniteSets, TLC

VARIABLES
    dep,       \* the MicrovmDeployment object in the store
    sets,      \* the MicrovmReplicaSet objects in the store, by name
    vms,       \* the Microvm objects in the store, by name
    remote,    \* the provisioner's microvms, by uid: their state or "absent"
    inflight,  \* delete calls dispatched with "go" that have not run yet
    last,      \* the Reconcile call of the latest step: what it saw, did
               \* and returned; NoCall after a step that is no Reconcile
    faults,    \* the number of Reconcile calls so far that met a fault or
               \* left a delete call running
    edits      \* the number of edits clients made to a spec so far

vars == <<dep, sets, vms, remote, inflight, last, faults, edits>>

----------------------------------------------------------------------------
(* Bounds of the model.                                                    *)

MaxVms == 2
MaxSets == 2
MaxUid == 3
MaxReplicas == 2
MaxFaults == 1
MaxEdits == 1

VmIds == 1..MaxVms
SetIds == 1..MaxSets
Uids == 1..MaxUid

(* The Microvm templates a MicrovmDeployment spec takes in the model.       *)
Templates == {"t1", "t2"}

(* The host endpoints, and the longest host list handed to the scope's     *)
(* host helpers.                                                            *)
Endpoints == {"h1", "h2", "h3"}

MaxHosts == 2

(* The host lists a MicrovmDeployment spec takes in the model.              *)
HostLists == { <<"h3">>, <<"h1", "h2">>, <<"h1", "h3">> }

----------------------------------------------------------------------------
(* Program constants.                                                      *)

requeuePeriod == 30

MicrovmPendingReason == "MicrovmPending"
MicrovmProvisionFailedReason == "MicrovmProvisionFailed"
MicrovmDeletingReason == "MicrovmDeleting"
MicrovmDeleteFailedReason == "MicrovmDeleteFailed"
MicrovmUnknownStateReason == "MicrovmUnknownState"

MicrovmReplicaSetIncompleteReason == "MicrovmReplicaSetIncomplete"
MicrovmReplicaSetProvisionFailedReason == "MicrovmReplicaSetProvisionFailed"
MicrovmReplicaSetDeletingReason == "MicrovmReplicaSetDeleting"
MicrovmReplicaSetDeleteFailedReason == "MicrovmReplicaSetDeleteFailed"
MicrovmReplicaSetUpdatingReason == "MicrovmReplicaSetUpdating"

MicrovmDeploymentIncompleteReason == "MicrovmDeploymentIncomplete"
MicrovmDeploymentProvisionFailedReason == "MicrovmDeploymentProvisionFailed"
MicrovmDeploymentDeletingReason == "MicrovmDeploymentDeleting"
MicrovmDeploymentDeleteFailedReason == "MicrovmDeploymentDeleteFailed"
MicrovmDeploymentUpdatingReason == "MicrovmDeploymentUpdating"
MicrovmDeploymentUpdateFailedReason == "MicrovmDeploymentUpdateFailed"

(* flintlocktypes.MicroVMStatus_MicroVMState; "OTHER" is any value the     *)
(* switch of parseMicroVMState does not name.                              *)
ProvisionerStates == {"PENDING", "CREATED", "FAILED", "DELETING", "OTHER"}

----------------------------------------------------------------------------
(* Objects.  An object that is not in the store is the No* record.         *)

NoVm ==
    [present |-> FALSE, owner |-> 0, host |-> "", deleting |-> FALSE,
     finalizer |-> FALSE, providerID |-> <<>>, vmState |-> "",
     ready |-> FALSE, cond |-> ""]

NoSet ==
    [present |-> FALSE, owner |-> "", host |-> "", replicas |-> 0,
     template |-> "",
     deleting |-> FALSE, finalizer |-> FALSE, stReplicas |-> 0,
     stReadyReplicas |-> 0, ready |-> FALSE, cond |-> ""]

NoDep ==
    [present |-> FALSE, hosts |-> <<>>, replicas |-> 0, template |-> "",
     deleting |-> FALSE,
     finalizer |-> FALSE, stReplicas |-> 0, stReadyReplicas |-> 0,
     ready |-> FALSE, cond |-> ""]

NoCall ==
    [ctrl |-> "none", key |-> 0, path |-> "none", branch |-> "",
     lookup |-> "none", uid |-> 0, pstate |-> "", ops |-> <<>>,
     requeue |-> FALSE, requeueAfter |-> 0, err |-> "none",
     persisted |-> FALSE, listed |-> 0, listedReady |-> 0,
     setHosts |-> {}, setHostsAfter |-> {}, host |-> "", hosts |-> {}]

(* The store's delete: an object with a finalizer is marked with a          *)
(* deletion timestamp, one without is removed.                              *)
StoreDelete(o, none) ==
    IF ~o.present THEN none
    ELSE IF o.finalizer THEN [o EXCEPT !.deleting = TRUE]
    ELSE none

(* The store's patch: the object as written; a terminating object whose    *)
(* last finalizer the patch removes leaves the store.                      *)
StorePatchMutKeep(o, none) == o

StorePatch(o, none) ==
    IF o.deleting /\ ~o.finalizer THEN none ELSE o

DeferredPatchMutSkip(st, mem, fails, none) == st

(* The deferred Patch of Reconcile: the in-memory object is persisted      *)
(* unless the patch fails, and then the store keeps what the last          *)
(* successful patch of the call wrote.                                     *)
DeferredPatch(st, mem, fails, none) ==
    IF fails THEN st ELSE StorePatch(mem, none)

----------------------------------------------------------------------------
(* MicrovmScope.                                                           *)

MvmSetReady(o) == [o EXCEPT !.ready = TRUE, !.cond = "True"]

MvmSetNotReadyMutKeepReady(o, reason) == [o EXCEPT !.cond = reason]

MvmSetNotReady(o, reason) == [o EXCEPT !.ready = FALSE, !.cond = reason]

SetProviderIDMutNone(o, uid) == o

(* The provider id is "microvm://<host>/<uid>": the host and the uid.       *)
SetProviderID(o, uid) == [o EXCEPT !.providerID = <<o.host, uid>>]

GetProviderID(o) == o.providerID

(* The uid parsed back out of the provider id; 0 is the empty string.       *)
GetInstanceID(o) == IF GetProviderID(o) = <<>> THEN 0 ELSE GetProviderID(o)[2]

----------------------------------------------------------------------------
(* The provisioner (flintlock), as the Microvm reconciler calls it.         *)

(* getMicrovmService: the factory is missing ("nil"), fails ("err") or      *)
(* yields a client.                                                         *)
getMicrovmService(f) ==
    IF f.fail = "factoryNil" THEN "errClientFactoryFuncRequired"
    ELSE IF f.fail = "factoryErr" THEN "creating microvm client"
    ELSE "none"

(* mvmSvc.Get: the unit and its state, or no unit: an error whose text      *)
(* holds "not found" or an empty response; or another error.                *)
SvcGet(rem, uid, f) ==
    IF f.fail = "get" THEN [kind |-> "error", state |-> ""]
    ELSE IF uid = 0 \/ rem[uid] = "absent"
         THEN [kind |-> f.absentAs, state |-> ""]
    ELSE [kind |-> "found", state |-> rem[uid]]

(* err != nil && !strings.Contains(err.Error(), "not found")               *)
GetFailed(look) == look.kind = "error"

(* microvm != nil after a Get that did not fail                             *)
MicrovmFound(look) == look.kind = "found"

(* The uid a Create answers with: one the provisioner does not hold and    *)
(* no Microvm object names; 0 when the model's uids are used up.           *)
FreshUid(rem, store) ==
    LET free == {i \in Uids : rem[i] = "absent"
                    /\ \A u \in VmIds : GetInstanceID(store[u]) # i}
    IN IF free = {} THEN 0 ELSE CHOOSE i \in free : \A j \in free : i <= j

----------------------------------------------------------------------------
(* MicrovmReconciler.                                                      *)

MvmCall(u, path) ==
    [NoCall EXCEPT !.ctrl = "mvm", !.key = u, !.path = path]

(* What a path of the Microvm reconciler hands back to Reconcile: st is    *)
(* the object as the path's own patches left it in the store, mem the      *)
(* in-memory object, rem the provisioner's units, br the return statement  *)
(* the path left by.                                                        *)
MvmRet(br, st, mem, rem, look, ops, res, err) ==
    [branch |-> br, st |-> st, mem |-> mem, rem |-> rem,
     lookup |-> look.kind, pstate |-> look.state, ops |-> ops, res |-> res,
     err |-> err]

NoLook == [kind |-> "skipped", state |-> ""]

parseMicroVMStateMutRequeue(o, state) ==
    IF state = "CREATED"
    THEN [mem |-> MvmSetReady([o EXCEPT !.vmState = "running"]),
          res |-> requeuePeriod, err |-> "none"]
    ELSE IF state = "PENDING"
    THEN [mem |-> MvmSetNotReady([o EXCEPT !.vmState = "pending"],
                                 MicrovmPendingReason),
          res |-> 0, err |-> "none"]
    ELSE [mem |-> o, res |-> 0, err |-> "none"]

parseMicroVMStateMutUnknownQuiet(o, state) ==
    IF state = "CREATED"
    THEN [mem |-> MvmSetReady([o EXCEPT !.vmState = "running"]),
          res |-> 0, err |-> "none"]
    ELSE IF state = "PENDING"
    THEN [mem |-> MvmSetNotReady([o EXCEPT !.vmState = "pending"],
                                 MicrovmPendingReason),
          res |-> requeuePeriod, err |-> "none"]
    ELSE IF state = "FAILED"
    THEN [mem |-> MvmSetNotReady([o EXCEPT !.vmState = "failed"],
                                 MicrovmProvisionFailedReason),
          res |-> 0, err |-> "errMicrovmFailed"]
    ELSE IF state = "DELETING"
    THEN [mem |-> o, res |-> requeuePeriod, err |-> "none"]
    ELSE [mem |-> MvmSetNotReady([o EXCEPT !.vmState = "unknown"],
                                 MicrovmUnknownStateReason),
          res |-> requeuePeriod, err |-> "none"]

parseMicroVMState(o, state) ==
    IF state = "CREATED"
    THEN [mem |-> MvmSetReady([o EXCEPT !.vmState = "running"]),
          res |-> 0, err |-> "none"]
    ELSE IF state = "PENDING"
    THEN [mem |-> MvmSetNotReady([o EXCEPT !.vmState = "pending"],
                                 MicrovmPendingReason),
          res |-> requeuePeriod, err |-> "none"]
    ELSE IF state = "FAILED"
    THEN [mem |-> MvmSetNotReady([o EXCEPT !.vmState = "failed"],
                                 MicrovmProvisionFailedReason),
          res |-> 0, err |-> "errMicrovmFailed"]
    ELSE IF state = "DELETING"
    THEN [mem |-> o, res |-> requeuePeriod, err |-> "none"]
    ELSE [mem |-> MvmSetNotReady([o EXCEPT !.vmState = "unknown"],
                                 MicrovmUnknownStateReason),
          res |-> requeuePeriod, err |-> "errMicrovmUnknownState"]

AddFinalizerMutNone(o) == o

(* controllerutil.AddFinalizer at line 175.                                 *)
AddFinalizer(o) == [o EXCEPT !.finalizer = TRUE]

MicrovmReconcileNormal(o, rem, store, f) ==
    IF getMicrovmService(f) # "none"
    THEN MvmRet("factory", o, o, rem, NoLook, <<>>, 0, getMicrovmService(f))
    ELSE
    LET look == IF GetProviderID(o) # <<>>
                THEN SvcGet(rem, GetInstanceID(o), f) ELSE NoLook
        ops0 == IF GetProviderID(o) # <<>> THEN <<"get">> ELSE <<>>
        m1 == AddFinalizer(o)
    IN
    IF GetFailed(look)
    THEN MvmRet("get", o, o, rem, look, ops0, 0, "get")
    ELSE IF f.fail = "patch1"
    THEN MvmRet("patch1", o, m1, rem, look, Append(ops0, "patchErr"),
                0, "patch")
    ELSE IF ~MicrovmFound(look) /\ f.fail = "create"
    THEN MvmRet("create", m1, m1, rem, look,
                ops0 \o <<"patch", "createErr">>, 0, "create")
    ELSE
    LET uid == IF MicrovmFound(look) THEN GetInstanceID(o)
               ELSE FreshUid(rem, store)
        state == IF MicrovmFound(look) THEN look.state ELSE f.createState
        rem1 == IF MicrovmFound(look) \/ uid = 0 THEN rem
                ELSE [rem EXCEPT ![uid] = state]
        ops1 == IF MicrovmFound(look) THEN Append(ops0, "patch")
                ELSE ops0 \o <<"patch", "create">>
        m2 == SetProviderID(m1, uid)
        p == parseMicroVMState(m2, state)
        look2 == [look EXCEPT !.state = state]
    IN
    IF f.fail = "patch2"
    THEN MvmRet("patch2", m1, m2, rem1, look2, Append(ops1, "patchErr"),
                0, "patch")
    ELSE MvmRet("parsed", m2, p.mem, rem1, look2, Append(ops1, "patch"),
                p.res, p.err)

(* The provisioner has no record of the unit: microvm == nil at line 118.  *)
NoRecordMutDeleting(look) == ~MicrovmFound(look) \/ look.state = "DELETING"

NoRecord(look) == ~MicrovmFound(look)

AlreadyDeletingMutNever(look) == FALSE

(* The unit is on its way out at the provisioner: the state test at line   *)
(* 130.                                                                     *)
AlreadyDeleting(look) == look.state = "DELETING"

MicrovmReconcileDelete(o, rem, f) ==
    IF getMicrovmService(f) # "none"
    THEN MvmRet("factory", o, o, rem, NoLook, <<>>, 0, "none")
    ELSE
    LET look == SvcGet(rem, GetInstanceID(o), f)
        m1 == MvmSetNotReady(o, MicrovmDeletingReason)
    IN
    IF GetFailed(look)
    THEN MvmRet("get", o, o, rem, look, <<"get">>, 0, "get")
    ELSE IF NoRecord(look)
    THEN MvmRet("released", o, [o EXCEPT !.finalizer = FALSE], rem, look,
                <<"get">>, 0, "none")
    ELSE IF f.fail = "patch1"
    THEN MvmRet("patch1", o, m1, rem, look, <<"get", "patchErr">>, 0, "patch")
    ELSE IF AlreadyDeleting(look)
    THEN MvmRet("deleting", m1, m1, rem, look, <<"get", "patch">>,
                requeuePeriod, "none")
    ELSE IF f.fail = "delete"
    THEN MvmRet("delete", m1, MvmSetNotReady(m1, MicrovmDeleteFailedReason),
                rem, look, <<"get", "patch", "deleteErr">>, 0, "delete")
    ELSE MvmRet("deleted", m1, m1,
                [rem EXCEPT ![GetInstanceID(o)] = "DELETING"], look,
                <<"get", "patch", "delete">>, requeuePeriod, "none")

(* Whether the path issued a Create.                                       *)
IssuedCreate(ops) == \E i \in 1..Len(ops) : ops[i] = "create"

(* MicrovmReconciler.Reconcile for the Microvm named u.                    *)
MicrovmReconcile(u, f) ==
    IF ~vms[u].present
    THEN /\ last' = MvmCall(u, "missing")
         /\ UNCHANGED <<dep, sets, vms, remote, inflight>>
    ELSE IF f.fail = "fetch"
    THEN /\ last' = [MvmCall(u, "fetcherr") EXCEPT !.err = "fetch"]
         /\ UNCHANGED <<dep, sets, vms, remote, inflight>>
    ELSE
    \E r \in {IF vms[u].deleting
               THEN MicrovmReconcileDelete(vms[u], remote, f)
               ELSE MicrovmReconcileNormal(vms[u], remote, vms, f)} :
    LET o == vms[u]
    IN /\ IssuedCreate(r.ops) => FreshUid(remote, vms) # 0
       /\ vms' = [vms EXCEPT ![u] = DeferredPatch(r.st, r.mem, f.patchFinal, NoVm)]
       /\ remote' = r.rem
       /\ last' = [MvmCall(u, IF o.deleting THEN "delete" ELSE "normal")
                     EXCEPT !.branch = r.branch, !.lookup = r.lookup,
                            !.uid = GetInstanceID(r.mem),
                            !.pstate = r.pstate,
                            !.ops = r.ops, !.requeueAfter = r.res,
                            !.err = r.err, !.persisted = ~f.patchFinal]
       /\ UNCHANGED <<dep, sets, inflight>>

(* The inputs of one Microvm reconcile.  A path returns at the first call  *)
(* that fails, so "fail" names that call: the fetch of the object, the     *)
(* client factory, the provisioner's Get, Create or Delete, the first or   *)
(* the second Patch of the path.  patchFinal says that the deferred Patch  *)
(* of Reconcile fails; absentAs and createState are the provisioner's      *)
(* answers for a unit it does not hold and for a unit it creates.          *)
MvmFailPoints ==
    {"none", "fetch", "factoryNil", "factoryErr", "get", "patch1", "create",
     "patch2", "delete"}

MvmFaults ==
    [fail : MvmFailPoints, patchFinal : BOOLEAN,
     absentAs : {"notfound", "nil"}, createState : {"PENDING", "CREATED"}]

(* The inputs with every call succeeding.                                   *)
MvmNoFaults ==
    [fail : {"none"}, patchFinal : {FALSE}, absentAs : {"notfound"},
     createState : {"PENDING"}]

(* The provisioner moves a unit that a Microvm names on: a pending unit is *)
(* created or fails, a deleting unit goes away, a unit may report a state  *)
(* the operator does not know, and a unit may be deleted at the            *)
(* provisioner by someone else.                                             *)
ProvisionerStep(uid, to) ==
    /\ \E u \in VmIds : vms[u].present /\ GetInstanceID(vms[u]) = uid
    /\ \/ /\ remote[uid] = "PENDING"
          /\ to \in {"CREATED", "FAILED", "OTHER", "DELETING"}
       \/ remote[uid] = "CREATED" /\ to \in {"FAILED", "OTHER", "DELETING"}
       \/ remote[uid] = "DELETING" /\ to = "absent"
    /\ remote' = [remote EXCEPT ![uid] = to]
    /\ last' = NoCall
    /\ UNCHANGED <<dep, sets, vms, inflight>>

(* A client deletes the Microvm named u.                                    *)
DeleteMicrovm(u) ==
    /\ vms[u].present /\ ~vms[u].deleting
    /\ vms' = [vms EXCEPT ![u] = StoreDelete(vms[u], NoVm)]
    /\ last' = NoCall
    /\ UNCHANGED <<dep, sets, remote, inflight>>

----------------------------------------------------------------------------
(* MicrovmReplicaSetScope.                                                  *)

RSDesiredReplicas(o) == o.replicas

RSReadyReplicas(o) == o.stReadyReplicas

RSCreatedReplicas(o) == o.stReplicas

RSSetCreatedReplicas(o, n) == [o EXCEPT !.stReplicas = n]

RSSetReadyReplicas(o, n) == [o EXCEPT !.stReadyReplicas = n]

RSSetReady(o) == [o EXCEPT !.ready = TRUE, !.cond = "True"]

RSSetNotReady(o, reason) == [o EXCEPT !.ready = FALSE, !.cond = reason]

----------------------------------------------------------------------------
(* MicrovmReplicaSetReconciler.                                            *)

(* The names in S in the order a List returns them: ascending.             *)
RECURSIVE InOrder(_)
InOrder(S) ==
    IF S = {} THEN <<>>
    ELSE LET m == CHOOSE i \in S : \A j \in S : i <= j
         IN <<m>> \o InOrder(S \ {m})

(* The Microvms that the ReplicaSet named s controls, in list order.       *)
getOwnedMicrovms(store, s) ==
    InOrder({u \in VmIds : store[u].present /\ store[u].owner = s})

(* A delete call dispatched with "go" that has not reached the store.      *)
GoDelete(kind, id) == [kind |-> kind, id |-> id]

(* The names a created Microvm can get: those of no stored Microvm and of  *)
(* no delete call still on its way.                                        *)
FreeVmIds ==
    {u \in VmIds : ~vms[u].present /\ GoDelete("mvm", u) \notin inflight}

(* createMicrovm: a Microvm named nu on the ReplicaSet's host, controlled  *)
(* by the ReplicaSet.                                                       *)
createMicrovm(store, s, o, nu) ==
    [store EXCEPT ![nu] =
        [NoVm EXCEPT !.present = TRUE, !.owner = s, !.host = o.host]]

RSCallMutRequeue(s, path) ==
    [NoCall EXCEPT !.ctrl = "rs", !.key = s, !.path = path,
                   !.requeueAfter = requeuePeriod]

RSCall(s, path) ==
    [NoCall EXCEPT !.ctrl = "rs", !.key = s, !.path = path]

RSRetMutHalf(br, mem, store, fly, ops, res, err, n, nready, patches) ==
    [branch |-> br, mem |-> mem, store |-> store, fly |-> fly, ops |-> ops,
     res |-> res \div 2, err |-> err, listed |-> n, listedReady |-> nready,
     patches |-> patches]

(* What a path of the ReplicaSet reconciler hands back to Reconcile: mem   *)
(* is the in-memory ReplicaSet, store the Microvms after the path's calls, *)
(* fly the delete calls it left running, patches the number of deferred    *)
(* Patch calls the path itself registered.                                  *)
RSRet(br, mem, store, fly, ops, res, err, n, nready, patches) ==
    [branch |-> br, mem |-> mem, store |-> store, fly |-> fly, ops |-> ops,
     res |-> res, err |-> err, listed |-> n, listedReady |-> nready,
     patches |-> patches]

RSNormalCaseMutWaitReady(o) ==
    IF RSReadyReplicas(o) = RSDesiredReplicas(o) THEN "ready"
    ELSE IF /\ RSCreatedReplicas(o) < RSDesiredReplicas(o)
            /\ RSReadyReplicas(o) = RSCreatedReplicas(o) THEN "create"
    ELSE IF RSCreatedReplicas(o) > RSDesiredReplicas(o) THEN "scaledown"
    ELSE "wait"

(* The case of the switch of reconcileNormal that is taken.                *)
RSNormalCase(o) ==
    IF RSReadyReplicas(o) = RSDesiredReplicas(o) THEN "ready"
    ELSE IF RSCreatedReplicas(o) < RSDesiredReplicas(o) THEN "create"
    ELSE IF RSCreatedReplicas(o) > RSDesiredReplicas(o) THEN "scaledown"
    ELSE "wait"

(* reconcileNormal; l is what getOwnedMicrovms answers when the List      *)
(* does not fail.                                                           *)
RSReconcileNormal(s, o, store, l, f, nu) ==
    IF f.fail = "list"
    THEN RSRet("list", o, store, {}, <<"listErr">>, 0, "list", 0, 0, 0)
    ELSE
    LET ready == Cardinality({i \in 1..Len(l) : store[l[i]].ready})
        m1 == RSSetReadyReplicas(RSSetCreatedReplicas(o, Len(l)), ready)
        case == RSNormalCase(m1)
    IN
    IF case = "ready"
    THEN RSRet("ready", RSSetReady(m1), store, {}, <<"list">>, 0, "none",
               Len(l), ready, 1)
    ELSE IF case = "create"
    THEN IF f.fail = "create"
         THEN RSRet("createErr",
                    RSSetNotReady(m1, MicrovmReplicaSetProvisionFailedReason),
                    store, {}, <<"list", "createErr">>, 0, "create",
                    Len(l), ready, 1)
         ELSE RSRet("create",
                    [RSSetNotReady(m1, MicrovmReplicaSetIncompleteReason)
                       EXCEPT !.finalizer = TRUE],
                    createMicrovm(store, s, o, nu), {}, <<"list", "create">>,
                    requeuePeriod, "none", Len(l), ready, 1)
    ELSE IF case = "scaledown"
    THEN LET m2 == RSSetNotReady(m1, MicrovmReplicaSetUpdatingReason)
             mvm == l[1]
         IN IF store[mvm].deleting
            THEN RSRet("victimDeleting", m2, store, {}, <<"list">>, 0, "none",
                       Len(l), ready, 1)
            ELSE IF f.fail = "delete"
            THEN RSRet("deleteErr",
                       RSSetNotReady(m2, MicrovmReplicaSetDeleteFailedReason),
                       store, {}, <<"list", "deleteErr">>, 0, "delete",
                       Len(l), ready, 1)
            ELSE RSRet("scaledown", [m2 EXCEPT !.finalizer = TRUE],
                       [store EXCEPT ![mvm] = StoreDelete(store[mvm], NoVm)],
                       {}, <<"list", "delete">>, requeuePeriod, "none",
                       Len(l), ready, 1)
    ELSE RSRet("wait",
               [RSSetNotReady(m1, MicrovmReplicaSetIncompleteReason)
                  EXCEPT !.finalizer = TRUE],
               store, {}, <<"list">>, requeuePeriod, "none", Len(l), ready, 1)

(* The delete calls of one pass over the listed Microvms, as operations.   *)
RECURSIVE DeleteOps(_, _, _)
DeleteOps(l, store, failed) ==
    IF l = <<>> THEN <<>>
    ELSE (IF store[Head(l)].deleting THEN <<>>
          ELSE IF Head(l) \in failed THEN <<"deleteErr">>
          ELSE <<"delete">>) \o DeleteOps(Tail(l), store, failed)

(* The count the delete path bails out on: the stored status, read at      *)
(* line 97 before anything is listed.                                       *)
RSNothingLeft(s, o, store) == RSCreatedReplicas(o) = 0

(* reconcileDelete; l is what getOwnedMicrovms answers when the List does *)
(* not fail.  Of the delete calls it starts with "go", those in early      *)
(* reach the store before Reconcile returns and those of them in failed    *)
(* fail; the others are left running.                                       *)
RSReconcileDelete(s, o, store, l, f, early, failed) ==
    IF RSNothingLeft(s, o, store)
    THEN RSRet("released", [o EXCEPT !.finalizer = FALSE], store, {}, <<>>,
               0, "none", 0, 0, 0)
    ELSE
    LET m1 == RSSetReadyReplicas(
                 RSSetNotReady(o, MicrovmReplicaSetDeletingReason), 0)
    IN
    IF f.fail = "list"
    THEN RSRet("list", m1, store, {}, <<"listErr">>, 0, "list", 0, 0, 1)
    ELSE
    LET targets == {l[i] : i \in {j \in 1..Len(l) : ~store[l[j]].deleting}}
        m2 == IF early \cap failed # {}
              THEN RSSetNotReady(m1, MicrovmReplicaSetDeleteFailedReason)
              ELSE m1
    IN RSRet("deleting", RSSetCreatedReplicas(m2, Len(l)),
             [u \in VmIds |-> IF u \in early \ failed
                              THEN StoreDelete(store[u], NoVm) ELSE store[u]],
             {GoDelete("mvm", u) : u \in targets \ early},
             <<"list">> \o DeleteOps(l, store, failed), requeuePeriod, "none",
             Len(l), 0, 1)

(* The Microvms a delete-path reconcile of ReplicaSet s sends a delete to. *)
RSDeleteTargets(s) ==
    IF sets[s].present /\ sets[s].deleting
       /\ ~RSNothingLeft(s, sets[s], vms)
    THEN {u \in VmIds : vms[u].present /\ vms[u].owner = s
                           /\ ~vms[u].deleting}
    ELSE {}

(* The names the Microvm that a reconcile of ReplicaSet s creates can get; *)
(* 0 stands for no name, when the reconcile creates nothing.               *)
RSNewNames(s) ==
    LET owned == {u \in VmIds : vms[u].present /\ vms[u].owner = s}
        m1 == RSSetReadyReplicas(
                 RSSetCreatedReplicas(sets[s], Cardinality(owned)),
                 Cardinality({u \in owned : vms[u].ready}))
    IN IF /\ sets[s].present /\ ~sets[s].deleting
          /\ RSNormalCase(m1) = "create"
       THEN FreeVmIds
       ELSE {0}

(* Whether the path issued the given operation.                            *)
Issued(ops, op) == \E i \in 1..Len(ops) : ops[i] = op

(* MicrovmReplicaSetReconciler.Reconcile for the ReplicaSet named s.  The  *)
(* deferred Patch of Reconcile and the one of the path persist the same    *)
(* in-memory object: it reaches the store when one of them succeeds.       *)
ReplicaSetReconcile(s, f, nu, early, failed) ==
    IF ~sets[s].present
    THEN /\ nu = 0 /\ early = {} /\ failed = {}
         /\ last' = RSCall(s, "missing")
         /\ UNCHANGED <<dep, sets, vms, remote, inflight>>
    ELSE IF f.fail = "fetch"
    THEN /\ nu = 0 /\ early = {} /\ failed = {}
         /\ last' = [RSCall(s, "fetcherr") EXCEPT !.err = "fetch"]
         /\ UNCHANGED <<dep, sets, vms, remote, inflight>>
    ELSE
    \E l \in {getOwnedMicrovms(vms, s)} :
    \E r \in {IF sets[s].deleting
               THEN RSReconcileDelete(s, sets[s], vms, l, f, early, failed)
               ELSE RSReconcileNormal(s, sets[s], vms, l, f, nu)} :
    LET o == sets[s]
        persisted == ~f.patchFinal \/ (r.patches > 0 /\ ~f.patchPath)
    IN /\ IF Issued(r.ops, "create") THEN nu \in FreeVmIds ELSE nu = 0
       /\ IF r.branch = "deleting"
          THEN early \subseteq RSDeleteTargets(s) /\ failed \subseteq early
          ELSE early = {} /\ failed = {}
       /\ sets' = [sets EXCEPT ![s] =
                      IF persisted THEN StorePatch(r.mem, NoSet) ELSE o]
       /\ vms' = r.store
       /\ inflight' = inflight \cup r.fly
       /\ last' = [RSCall(s, IF o.deleting THEN "delete" ELSE "normal")
                     EXCEPT !.branch = r.branch, !.ops = r.ops,
                            !.requeueAfter = r.res, !.err = r.err,
                            !.persisted = persisted, !.listed = r.listed,
                            !.listedReady = r.listedReady]
       /\ UNCHANGED <<dep, remote>>

(* The inputs of one ReplicaSet reconcile: the call that fails (the fetch  *)
(* of the object, the List, the Create or the Delete of the normal path),  *)
(* and whether the deferred Patch of Reconcile and that of the path fail.  *)
RSFailPoints == {"none", "fetch", "list", "create", "delete"}

RSFaults == [fail : RSFailPoints, patchFinal : BOOLEAN, patchPath : BOOLEAN]

RSNoFaults == [fail : {"none"}, patchFinal : {FALSE}, patchPath : {FALSE}]

(* A delete call that was left running reaches the store, or fails.        *)
RunDelete(t, ok) ==
    /\ t \in inflight
    /\ inflight' = inflight \ {t}
    /\ IF ok /\ t.kind = "mvm"
       THEN /\ vms' = [vms EXCEPT ![t.id] = StoreDelete(vms[t.id], NoVm)]
            /\ UNCHANGED sets
       ELSE IF ok
       THEN /\ sets' = [sets EXCEPT ![t.id] = StoreDelete(sets[t.id], NoSet)]
            /\ UNCHANGED vms
       ELSE UNCHANGED <<sets, vms>>
    /\ last' = NoCall
    /\ UNCHANGED <<dep, remote>>

(* A client deletes the ReplicaSet named s.                                 *)
DeleteReplicaSet(s) ==
    /\ sets[s].present /\ ~sets[s].deleting
    /\ sets' = [sets EXCEPT ![s] = StoreDelete(sets[s], NoSet)]
    /\ last' = NoCall
    /\ UNCHANGED <<dep, vms, remote, inflight>>

(* A client sets the replicas of the ReplicaSet named s.                    *)
ScaleReplicaSet(s, n) ==
    /\ sets[s].present /\ ~sets[s].deleting /\ sets[s].replicas # n
    /\ sets' = [sets EXCEPT ![s].replicas = n]
    /\ last' = NoCall
    /\ UNCHANGED <<dep, vms, remote, inflight>>

----------------------------------------------------------------------------
(* MicrovmDeploymentScope.                                                  *)

(* The hosts of a list, as a set.                                           *)
HostSet(hosts) == {hosts[i] : i \in 1..Len(hosts)}

RequiredSets(o) == Len(o.hosts)

DesiredReplicas(o) == o.replicas

DesiredTotalReplicasMutPerSet(o) == DesiredReplicas(o)

DesiredTotalReplicas(o) == DesiredReplicas(o) * RequiredSets(o)

ReadyReplicas(o) == o.stReadyReplicas

CreatedReplicas(o) == o.stReplicas

(* The Microvm spec of the Deployment's template.                           *)
MicrovmSpec(o) == o.template

DetermineHostMutFirstOnly(o, setHosts) ==
    IF o.hosts # <<>> /\ o.hosts[1] \notin setHosts THEN o.hosts[1] ELSE ""

DetermineHostMutLast(o, setHosts) ==
    LET free == {i \in 1..Len(o.hosts) : o.hosts[i] \notin setHosts}
    IN IF free = {} THEN ""
       ELSE o.hosts[CHOOSE i \in free : \A j \in free : i >= j]

(* DetermineHost: the first host of the spec that is not in setHosts; ""   *)
(* stands for the error "could not find free host".                        *)
DetermineHost(o, setHosts) ==
    LET free == {i \in 1..Len(o.hosts) : o.hosts[i] \notin setHosts}
    IN IF free = {} THEN ""
       ELSE o.hosts[CHOOSE i \in free : \A j \in free : i <= j]

ExpiredHostsMutKeepAll(o, setHosts) == setHosts

(* ExpiredHosts: the hosts of setHosts that the spec no longer names.      *)
ExpiredHosts(o, setHosts) == setHosts \ HostSet(o.hosts)

SetCreatedReplicasMutKeep(o, n) == o

SetCreatedReplicas(o, n) == [o EXCEPT !.stReplicas = n]

SetReadyReplicasMutKeep(o, n) == o

SetReadyReplicas(o, n) == [o EXCEPT !.stReadyReplicas = n]

SetReady(o) == [o EXCEPT !.ready = TRUE, !.cond = "True"]

SetNotReady(o, reason) == [o EXCEPT !.ready = FALSE, !.cond = reason]

----------------------------------------------------------------------------
(* MicrovmDeploymentReconciler.                                            *)

(* The owner reference of the ReplicaSets the Deployment controls.         *)
DepRef == "deployment"

getOwnedReplicaSetsMutAll(store) ==
    InOrder({s \in SetIds : store[s].present})

(* The ReplicaSets that the Deployment controls, in list order.            *)
getOwnedReplicaSets(store) ==
    InOrder({s \in SetIds : store[s].present /\ store[s].owner = DepRef})

(* The names a created ReplicaSet can get: those of no stored ReplicaSet,  *)
(* of no delete call still on its way and of no owner of a Microvm.        *)
FreeSetIds ==
    {s \in SetIds : /\ ~sets[s].present
                    /\ GoDelete("rs", s) \notin inflight
                    /\ \A u \in VmIds : ~(vms[u].present /\ vms[u].owner = s)}

(* createReplicaSet: a ReplicaSet named ns on the host, with the           *)
(* Deployment's replicas, controlled by the Deployment.                    *)
createReplicaSet(store, o, host, ns) ==
    [store EXCEPT ![ns] =
        [NoSet EXCEPT !.present = TRUE, !.owner = DepRef, !.host = host,
                      !.replicas = DesiredReplicas(o),
                      !.template = MicrovmSpec(o)]]

RECURSIVE SumOver(_, _, _)
SumOver(l, store, field) ==
    IF l = <<>> THEN 0
    ELSE (IF field = "replicas" THEN store[Head(l)].stReplicas
          ELSE store[Head(l)].stReadyReplicas)
         + SumOver(Tail(l), store, field)

DepCall(path) == [NoCall EXCEPT !.ctrl = "dep", !.path = path]

(* What a path of the Deployment reconciler hands back to Reconcile.       *)
DepRet(br, mem, store, fly, ops, res, err, n, nready, patches) ==
    [branch |-> br, mem |-> mem, store |-> store, fly |-> fly, ops |-> ops,
     res |-> res, err |-> err, listed |-> n, listedReady |-> nready,
     patches |-> patches]

(* The loop of the expired-hosts case over the listed ReplicaSets: a       *)
(* ReplicaSet on an expired host is deleted and the loop goes on; it       *)
(* returns at one that is terminating already and at a Delete that fails.  *)
(* failAt counts the Delete calls down to the one that fails; 0 is none.   *)
RECURSIVE DeleteExpired(_, _, _, _, _)
DeleteExpired(l, store, dead, failAt, ops) ==
    IF l = <<>> THEN [out |-> "done", store |-> store, ops |-> ops]
    ELSE LET rs == Head(l)
         IN IF store[rs].host \notin dead
            THEN DeleteExpired(Tail(l), store, dead, failAt, ops)
            ELSE IF store[rs].deleting
            THEN [out |-> "terminating", store |-> store, ops |-> ops]
            ELSE IF failAt = 1
            THEN [out |-> "failed", store |-> store,
                  ops |-> Append(ops, "deleteErr")]
            ELSE DeleteExpired(Tail(l),
                    [store EXCEPT ![rs] = StoreDelete(store[rs], NoSet)],
                    dead, IF failAt = 0 THEN 0 ELSE failAt - 1,
                    Append(ops, "delete"))

(* The case of the switch of reconcileNormal that is taken.                *)
DepNormalCase(o, createdSets, deadHosts) ==
    IF ReadyReplicas(o) = DesiredTotalReplicas(o) THEN "ready"
    ELSE IF deadHosts # {} THEN "expired"
    ELSE IF createdSets < RequiredSets(o) THEN "create"
    ELSE "wait"

(* reconcileNormal; rsList is what getOwnedReplicaSets answers when the   *)
(* List does not fail.                                                      *)
DepReconcileNormal(o, store, rsList, f, ns) ==
    IF f.fail = "list"
    THEN DepRet("list", o, store, {}, <<"listErr">>, 0, "list", 0, 0, 0)
    ELSE
    LET created == SumOver(rsList, store, "replicas")
        ready == SumOver(rsList, store, "ready")
        activeHosts == {store[rsList[i]].host : i \in 1..Len(rsList)}
        m1 == SetReadyReplicas(SetCreatedReplicas(o, created), ready)
        createdSets == Cardinality(activeHosts)
        deadHosts == ExpiredHosts(o, activeHosts)
        case == DepNormalCase(m1, createdSets, deadHosts)
        n == Len(rsList)
    IN
    IF case = "ready"
    THEN DepRet("ready", SetReady(m1), store, {}, <<"list">>, 0, "none",
                n, ready, 1)
    ELSE IF case = "expired"
    THEN LET m2 == SetNotReady(m1, MicrovmDeploymentUpdatingReason)
             d == DeleteExpired(rsList, store, deadHosts,
                                IF f.fail = "delete" THEN 1
                                ELSE IF f.fail = "delete2" THEN 2 ELSE 0,
                                <<"list">>)
         IN IF d.out = "terminating"
            THEN DepRet("terminating", m2, d.store, {}, d.ops, 0, "none",
                        n, ready, 1)
            ELSE IF d.out = "failed"
            THEN DepRet("deleteErr",
                        SetNotReady(m2, MicrovmDeploymentUpdateFailedReason),
                        d.store, {}, d.ops, 0, "delete", n, ready, 1)
            ELSE DepRet("expired", [m2 EXCEPT !.finalizer = TRUE], d.store,
                        {}, d.ops, requeuePeriod, "none", n, ready, 1)
    ELSE IF case = "create"
    THEN LET host == DetermineHost(o, activeHosts)
             bad == SetNotReady(m1, MicrovmDeploymentProvisionFailedReason)
         IN IF host = ""
            THEN DepRet("nohost", bad, store, {}, <<"list">>, 0, "nohost",
                        n, ready, 1)
            ELSE IF f.fail = "create"
            THEN DepRet("createErr", bad, store, {}, <<"list", "createErr">>,
                        0, "create", n, ready, 1)
            ELSE DepRet("create",
                        [SetNotReady(m1, MicrovmDeploymentIncompleteReason)
                           EXCEPT !.finalizer = TRUE],
                        createReplicaSet(store, o, host, ns), {},
                        <<"list", "create">>, requeuePeriod, "none",
                        n, ready, 1)
    ELSE DepRet("wait",
                [SetNotReady(m1, MicrovmDeploymentIncompleteReason)
                   EXCEPT !.finalizer = TRUE],
                store, {}, <<"list">>, requeuePeriod, "none", n, ready, 1)

DepNothingLeftMutStatus(o, rsList) == CreatedReplicas(o) = 0

(* len(rsList) == 0 at line 106: no owned ReplicaSet is left.              *)
DepNothingLeft(o, rsList) == Len(rsList) = 0

(* reconcileDelete; rsList is what getOwnedReplicaSets answers when the   *)
(* List does not fail.  Of the delete calls it starts with "go", those in  *)
(* early reach the store before Reconcile returns and those of them in     *)
(* failed fail; the others are left running.                                *)
DepReconcileDelete(o, store, rsList, f, early, failed) ==
    IF f.fail = "list"
    THEN DepRet("list", o, store, {}, <<"listErr">>, 0, "list", 0, 0, 0)
    ELSE
    LET n == Len(rsList)
    IN
    IF DepNothingLeft(o, rsList)
    THEN DepRet("released", [o EXCEPT !.finalizer = FALSE], store, {},
                <<"list">>, 0, "none", n, 0, 0)
    ELSE
    LET m1 == SetReadyReplicas(
                 SetNotReady(o, MicrovmDeploymentDeletingReason), 0)
        targets == {rsList[i] :
                       i \in {j \in 1..n : ~store[rsList[j]].deleting}}
        m2 == IF early \cap failed # {}
              THEN SetNotReady(m1, MicrovmDeploymentDeleteFailedReason)
              ELSE m1
    IN DepRet("deleting",
              SetCreatedReplicas(m2, SumOver(rsList, store, "replicas")),
              [s \in SetIds |-> IF s \in early \ failed
                                THEN StoreDelete(store[s], NoSet)
                                ELSE store[s]],
              {GoDelete("rs", s) : s \in targets \ early},
              <<"list">> \o DeleteOps(rsList, store, failed), requeuePeriod,
              "none", n, 0, 1)

(* The ReplicaSets a delete-path reconcile of the Deployment sends a       *)
(* delete to.                                                               *)
DepDeleteTargets ==
    IF dep.present /\ dep.deleting
    THEN {s \in SetIds : sets[s].present /\ sets[s].owner = DepRef
                            /\ ~sets[s].deleting}
    ELSE {}

(* The names the ReplicaSet that a reconcile of the Deployment creates can *)
(* get; 0 stands for no name, when the reconcile creates nothing.          *)
DepNewNames ==
    LET owned == {s \in SetIds : sets[s].present /\ sets[s].owner = DepRef}
        activeHosts == {sets[s].host : s \in owned}
        m1 == SetReadyReplicas(dep, SumOver(InOrder(owned), sets, "ready"))
    IN IF /\ dep.present /\ ~dep.deleting
          /\ DepNormalCase(m1, Cardinality(activeHosts),
                           ExpiredHosts(dep, activeHosts)) = "create"
          /\ DetermineHost(dep, activeHosts) # ""
       THEN FreeSetIds
       ELSE {0}

(* MicrovmDeploymentReconciler.Reconcile.  The deferred Patch of Reconcile *)
(* and the one of the path persist the same in-memory object: it reaches   *)
(* the store when one of them succeeds.                                     *)
DeploymentReconcile(f, ns, early, failed) ==
    IF ~dep.present
    THEN /\ ns = 0 /\ early = {} /\ failed = {}
         /\ last' = DepCall("missing")
         /\ UNCHANGED <<dep, sets, vms, remote, inflight>>
    ELSE IF f.fail = "fetch"
    THEN /\ ns = 0 /\ early = {} /\ failed = {}
         /\ last' = [DepCall("fetcherr") EXCEPT !.err = "fetch"]
         /\ UNCHANGED <<dep, sets, vms, remote, inflight>>
    ELSE
    \E rsList \in {getOwnedReplicaSets(sets)} :
    \E r \in {IF dep.deleting
               THEN DepReconcileDelete(dep, sets, rsList, f, early, failed)
               ELSE DepReconcileNormal(dep, sets, rsList, f, ns)} :
    LET persisted == ~f.patchFinal \/ (r.patches > 0 /\ ~f.patchPath)
    IN /\ IF Issued(r.ops, "create") THEN ns \in FreeSetIds ELSE ns = 0
       /\ IF r.branch = "deleting"
          THEN early \subseteq DepDeleteTargets /\ failed \subseteq early
          ELSE early = {} /\ failed = {}
       /\ dep' = IF persisted THEN StorePatch(r.mem, NoDep) ELSE dep
       /\ sets' = r.store
       /\ inflight' = inflight \cup r.fly
       /\ last' = [DepCall(IF dep.deleting THEN "delete" ELSE "normal")
                     EXCEPT !.branch = r.branch, !.ops = r.ops,
                            !.requeueAfter = r.res, !.err = r.err,
                            !.persisted = persisted, !.listed = r.listed,
                            !.listedReady = r.listedReady]
       /\ UNCHANGED <<vms, remote>>

(* The inputs of one Deployment reconcile: the call that fails (the fetch  *)
(* of the object, the List, the Create, the first or the second Delete of  *)
(* the normal path), and whether the deferred Patch of Reconcile and that  *)
(* of the path fail.                                                        *)
DepFailPoints == {"none", "fetch", "list", "create", "delete", "delete2"}

DepFaults == [fail : DepFailPoints, patchFinal : BOOLEAN, patchPath : BOOLEAN]

DepNoFaults == [fail : {"none"}, patchFinal : {FALSE}, patchPath : {FALSE}]

(* A client deletes the Deployment.                                         *)
DeleteDeployment ==
    /\ dep.present /\ ~dep.deleting
    /\ dep' = StoreDelete(dep, NoDep)
    /\ last' = NoCall
    /\ UNCHANGED <<sets, vms, remote, inflight>>

(* A client sets the hosts of the Deployment.                               *)
EditHosts(hosts) ==
    /\ dep.present /\ ~dep.deleting /\ dep.hosts # hosts
    /\ dep' = [dep EXCEPT !.hosts = hosts]
    /\ last' = NoCall
    /\ UNCHANGED <<sets, vms, remote, inflight>>

(* A client sets the replicas per host of the Deployment.                   *)
ScaleDeployment(n) ==
    /\ dep.present /\ ~dep.deleting /\ dep.replicas # n
    /\ dep' = [dep EXCEPT !.replicas = n]
    /\ last' = NoCall
    /\ UNCHANGED <<sets, vms, remote, inflight>>

(* A call of DetermineHost with the map setHosts: the call record holds    *)
(* the map before and after the call and the host returned.                *)
DetermineHostCall(setHosts) ==
    /\ dep.present
    /\ last' = [NoCall EXCEPT !.ctrl = "scope", !.path = "DetermineHost",
                              !.setHosts = setHosts,
                              !.setHostsAfter = setHosts,
                              !.host = DetermineHost(dep, setHosts)]
    /\ UNCHANGED <<dep, sets, vms, remote, inflight>>

(* A call of ExpiredHosts with the map setHosts: the loop deletes from the *)
(* map it was handed and returns that same map, so the caller's map after  *)
(* the call is the result.                                                  *)
ExpiredHostsCall(setHosts) ==
    /\ dep.present
    /\ last' = [NoCall EXCEPT !.ctrl = "scope", !.path = "ExpiredHosts",
                              !.setHosts = setHosts,
                              !.setHostsAfter = ExpiredHosts(dep, setHosts),
                              !.hosts = ExpiredHosts(dep, setHosts)]
    /\ UNCHANGED <<dep, sets, vms, remote, inflight>>

----------------------------------------------------------------------------
(* The bounds on the faults and on the edits of one behaviour.             *)

(* A Reconcile call whose inputs hold a fault, or that leaves a delete     *)
(* call running, counts against MaxFaults.                                  *)
Charge(faulty) ==
    IF faulty THEN faults < MaxFaults /\ faults' = faults + 1
    ELSE UNCHANGED faults

(* An edit of a spec counts against MaxEdits.                               *)
Edit == edits < MaxEdits /\ edits' = edits + 1

----------------------------------------------------------------------------
(* The Microvm reconciler alone: one Microvm on host h1, as a client       *)
(* created it, with every fault.                                            *)

NewVm(owner, host) ==
    [NoVm EXCEPT !.present = TRUE, !.owner = owner, !.host = host]

InitMvm ==
    /\ dep = NoDep
    /\ sets = [s \in SetIds |-> NoSet]
    /\ vms = [u \in VmIds |-> IF u = 1 THEN NewVm(0, "h1") ELSE NoVm]
    /\ remote = [i \in Uids |-> "absent"]
    /\ inflight = {}
    /\ last = NoCall
    /\ faults = 0
    /\ edits = 0

NextMvm ==
    /\ \/ \E f \in MvmFaults : MicrovmReconcile(1, f)
       \/ \E i \in Uids, to \in ProvisionerStates \cup {"absent"} :
             ProvisionerStep(i, to)
       \/ DeleteMicrovm(1)
    /\ UNCHANGED <<faults, edits>>

SpecMvm == InitMvm /\ [][NextMvm]_vars

----------------------------------------------------------------------------
(* The ReplicaSet reconciler with the Microvm reconciler under it: one     *)
(* ReplicaSet on host h1, as a client created it.  The ReplicaSet          *)
(* reconciler meets every fault; the Microvm reconciler and the            *)
(* provisioner meet none.                                                   *)

NewSet(owner, host, n) ==
    [NoSet EXCEPT !.present = TRUE, !.owner = owner, !.host = host,
                  !.replicas = n]

InitRS ==
    /\ dep = NoDep
    /\ \E n \in 0..MaxReplicas :
          sets = [s \in SetIds |-> IF s = 1 THEN NewSet("", "h1", n)
                                   ELSE NoSet]
    /\ vms = [u \in VmIds |-> NoVm]
    /\ remote = [i \in Uids |-> "absent"]
    /\ inflight = {}
    /\ last = NoCall
    /\ faults = 0
    /\ edits = 0

NextRS ==
    \/ \E f \in RSFaults, nu \in RSNewNames(1) \cup {0},
          early \in SUBSET RSDeleteTargets(1) :
          \E failed \in SUBSET early :
             /\ Charge(f \notin RSNoFaults \/ early # RSDeleteTargets(1))
             /\ ReplicaSetReconcile(1, f, nu, early, failed)
             /\ UNCHANGED edits
    \/ /\ \E u \in VmIds, f \in MvmNoFaults :
             vms[u].present /\ MicrovmReconcile(u, f)
       /\ UNCHANGED <<faults, edits>>
    \/ /\ \E i \in Uids, to \in {"CREATED", "absent"} : ProvisionerStep(i, to)
       /\ UNCHANGED <<faults, edits>>
    \/ /\ \E t \in inflight, ok \in BOOLEAN : RunDelete(t, ok)
       /\ UNCHANGED <<faults, edits>>
    \/ /\ DeleteReplicaSet(1)
       /\ UNCHANGED <<faults, edits>>
    \/ /\ \E n \in 0..MaxReplicas : ScaleReplicaSet(1, n)
       /\ Edit
       /\ UNCHANGED faults

SpecRS == InitRS /\ [][NextRS]_vars

(* The same two reconcilers with no fault, under a client that changes the *)
(* ReplicaSet's replicas up to MaxScales times: scale-downs that follow     *)
(* scale-ups while deleted Microvms are still in the store.  A created      *)
(* Microvm gets any free name.                                              *)
MaxScales == 3

NextRSScale ==
    \/ /\ \E f \in RSNoFaults, nu \in RSNewNames(1) :
             ReplicaSetReconcile(1, f, nu, RSDeleteTargets(1), {})
       /\ UNCHANGED <<faults, edits>>
    \/ /\ \E u \in VmIds, f \in MvmNoFaults :
             vms[u].present /\ MicrovmReconcile(u, f)
       /\ UNCHANGED <<faults, edits>>
    \/ /\ \E i \in Uids, to \in {"CREATED", "absent"} : ProvisionerStep(i, to)
       /\ UNCHANGED <<faults, edits>>
    \/ /\ \E n \in 0..MaxReplicas : ScaleReplicaSet(1, n)
       /\ edits < MaxScales /\ edits' = edits + 1
       /\ UNCHANGED faults

SpecRSScale == InitRS /\ [][NextRSScale]_vars

----------------------------------------------------------------------------
(* The three reconcilers together: one Deployment, as a client created it. *)
(* Every store and provisioner call succeeds; clients edit the hosts; a    *)
(* created object gets the first free name.                                 *)

(* The first of the names a created object can get.                        *)
FirstOf(names) ==
    IF names = {} THEN {}
    ELSE {CHOOSE i \in names : \A j \in names : i <= j}

NewDep(hosts, n) ==
    [NoDep EXCEPT !.present = TRUE, !.hosts = hosts, !.replicas = n]

Init ==
    /\ \E hosts \in HostLists, t \in Templates :
          dep = [NewDep(hosts, 1) EXCEPT !.template = t]
    /\ sets = [s \in SetIds |-> NoSet]
    /\ vms = [u \in VmIds |-> NoVm]
    /\ remote = [i \in Uids |-> "absent"]
    /\ inflight = {}
    /\ last = NoCall
    /\ faults = 0
    /\ edits = 0

(* The steps of the two tiers under the Deployment.                        *)
Below ==
    \/ \E s \in SetIds, f \in RSNoFaults :
          /\ sets[s].present
          /\ \E nu \in FirstOf(RSNewNames(s)) :
                ReplicaSetReconcile(s, f, nu, RSDeleteTargets(s), {})
    \/ \E u \in VmIds, f \in MvmNoFaults :
          vms[u].present /\ MicrovmReconcile(u, f)
    \/ \E i \in Uids, to \in {"CREATED", "absent"} : ProvisionerStep(i, to)

Next ==
    \/ /\ \E f \in DepNoFaults, ns \in FirstOf(DepNewNames) :
             dep.present /\ DeploymentReconcile(f, ns, {}, {})
       /\ UNCHANGED <<faults, edits>>
    \/ /\ Below
       /\ UNCHANGED <<faults, edits>>
    \/ /\ \E hosts \in HostLists : EditHosts(hosts)
       /\ Edit
       /\ UNCHANGED faults

Spec == Init /\ [][Next]_vars

(* The three reconcilers together when a client deletes the Deployment.    *)
(* The Deployment's delete path may leave delete calls running.            *)
NextDelete ==
    \/ \E f \in DepNoFaults, ns \in FirstOf(DepNewNames),
          early \in SUBSET DepDeleteTargets :
          /\ dep.present
          /\ Charge(early # DepDeleteTargets)
          /\ DeploymentReconcile(f, ns, early, {})
          /\ UNCHANGED edits
    \/ /\ Below
       /\ UNCHANGED <<faults, edits>>
    \/ /\ \E t \in inflight : RunDelete(t, TRUE)
       /\ UNCHANGED <<faults, edits>>
    \/ /\ DeleteDeployment
       /\ UNCHANGED <<faults, edits>>

SpecDelete == Init /\ [][NextDelete]_vars

(* The three reconcilers together, left alone by clients and reconciled    *)
(* fairly: every object in the store is reconciled again and again, and    *)
(* the provisioner moves every unit on.  The Deployment asks for no more   *)
(* Microvms than the model has names for.                                   *)
InitConv ==
    /\ \E hosts \in HostLists, n \in 0..MaxReplicas :
          /\ n * Len(hosts) <= MaxVms
          /\ dep = NewDep(hosts, n)
    /\ sets = [s \in SetIds |-> NoSet]
    /\ vms = [u \in VmIds |-> NoVm]
    /\ remote = [i \in Uids |-> "absent"]
    /\ inflight = {}
    /\ last = NoCall
    /\ faults = 0
    /\ edits = 0

DepStep ==
    /\ \E f \in DepNoFaults, ns \in FirstOf(DepNewNames) :
          dep.present /\ DeploymentReconcile(f, ns, {}, {})
    /\ UNCHANGED <<faults, edits>>

RSStep(s) ==
    /\ \E f \in RSNoFaults, nu \in FirstOf(RSNewNames(s)) :
          sets[s].present /\ ReplicaSetReconcile(s, f, nu, {}, {})
    /\ UNCHANGED <<faults, edits>>

MvmStep(u) ==
    /\ \E f \in MvmNoFaults : vms[u].present /\ MicrovmReconcile(u, f)
    /\ UNCHANGED <<faults, edits>>

RunStep(i) ==
    /\ ProvisionerStep(i, "CREATED")
    /\ UNCHANGED <<faults, edits>>

NextConv ==
    \/ DepStep
    \/ \E s \in SetIds : RSStep(s)
    \/ \E u \in VmIds : MvmStep(u)
    \/ \E i \in Uids : RunStep(i)

SpecConv ==
    /\ InitConv /\ [][NextConv]_vars
    /\ WF_vars(DepStep)
    /\ \A s \in SetIds : WF_vars(RSStep(s))
    /\ \A u \in VmIds : WF_vars(MvmStep(u))
    /\ \A i \in Uids : WF_vars(RunStep(i))

(* The same, with a client that changes the Deployment's replicas per host *)
(* and leaves its hosts alone; the new count too asks for no more Microvms  *)
(* than the model has names for.                                            *)
ScaleStep ==
    /\ \E n \in 0..MaxReplicas :
          n * Len(dep.hosts) <= MaxVms /\ ScaleDeployment(n)
    /\ Edit
    /\ UNCHANGED faults

NextScale ==
    \/ DepStep
    \/ \E s \in SetIds : RSStep(s)
    \/ \E u \in VmIds : MvmStep(u)
    \/ \E i \in Uids : RunStep(i)
    \/ ScaleStep

SpecScale ==
    /\ InitConv /\ [][NextScale]_vars
    /\ WF_vars(DepStep)
    /\ \A s \in SetIds : WF_vars(RSStep(s))
    /\ \A u \in VmIds : WF_vars(MvmStep(u))
    /\ \A i \in Uids : WF_vars(RunStep(i))

(* The three reconcilers together when a client deletes the Deployment and *)
(* everything is reconciled fairly: every object in the store is           *)
(* reconciled again and again, every store call succeeds, every delete     *)
(* call left running reaches the store, and the provisioner moves every    *)
(* unit on, a deleted one to absent.                                        *)
CascadeDepStep ==
    /\ \E f \in DepNoFaults, ns \in FirstOf(DepNewNames),
          early \in SUBSET DepDeleteTargets :
          dep.present /\ DeploymentReconcile(f, ns, early, {})
    /\ UNCHANGED <<faults, edits>>

CascadeRSStep(s) ==
    /\ \E f \in RSNoFaults, nu \in FirstOf(RSNewNames(s)),
          early \in SUBSET RSDeleteTargets(s) :
          sets[s].present /\ ReplicaSetReconcile(s, f, nu, early, {})
    /\ UNCHANGED <<faults, edits>>

CascadeRunStep(i) ==
    /\ \E to \in {"CREATED", "absent"} : ProvisionerStep(i, to)
    /\ UNCHANGED <<faults, edits>>

CascadeFlyStep ==
    /\ \E t \in inflight : RunDelete(t, TRUE)
    /\ UNCHANGED <<faults, edits>>

CascadeDeleteStep ==
    /\ DeleteDeployment
    /\ UNCHANGED <<faults, edits>>

NextCascade ==
    \/ CascadeDepStep
    \/ \E s \in SetIds : CascadeRSStep(s)
    \/ \E u \in VmIds : MvmStep(u)
    \/ \E i \in Uids : CascadeRunStep(i)
    \/ CascadeFlyStep
    \/ CascadeDeleteStep

SpecCascade ==
    /\ InitConv /\ [][NextCascade]_vars
    /\ WF_vars(CascadeDepStep)
    /\ \A s \in SetIds : WF_vars(CascadeRSStep(s))
    /\ \A u \in VmIds : WF_vars(MvmStep(u))
    /\ \A i \in Uids : WF_vars(CascadeRunStep(i))
    /\ WF_vars(CascadeFlyStep)

(* The Deployment reconciler alone and the host helpers of its scope, on a *)
(* Deployment whose spec holds any list of hosts up to MaxHosts, a host    *)
(* named twice included: the helpers are called with every map of          *)
(* endpoints, the Deployment is reconciled, a client edits the hosts.      *)
RECURSIVE HostSeqs(_)
HostSeqs(n) ==
    IF n = 0 THEN {<<>>}
    ELSE HostSeqs(n - 1)
         \cup {Append(q, h) : q \in {p \in HostSeqs(n - 1) : Len(p) = n - 1},
                               h \in Endpoints}

InitScope ==
    /\ \E hosts \in HostSeqs(MaxHosts) : dep = NewDep(hosts, 1)
    /\ sets = [s \in SetIds |-> NoSet]
    /\ vms = [u \in VmIds |-> NoVm]
    /\ remote = [i \in Uids |-> "absent"]
    /\ inflight = {}
    /\ last = NoCall
    /\ faults = 0
    /\ edits = 0

NextScope ==
    \/ /\ \E setHosts \in SUBSET Endpoints : DetermineHostCall(setHosts)
       /\ UNCHANGED <<faults, edits>>
    \/ /\ \E setHosts \in SUBSET Endpoints : ExpiredHostsCall(setHosts)
       /\ UNCHANGED <<faults, edits>>
    \/ DepStep
    \/ /\ \E hosts \in HostSeqs(MaxHosts) : EditHosts(hosts)
       /\ Edit
       /\ UNCHANGED faults

SpecScope == InitScope /\ [][NextScope]_vars

(* The three reconcilers together in a store that may hold a ReplicaSet of *)
(* another controller, on any host, which asks for no Microvm.  One store  *)
(* call of the Deployment reconciler in a run may fail; clients edit the   *)
(* hosts.                                                                   *)
OtherRef == "other"

InitOwn ==
    /\ \E hosts \in HostLists : dep = NewDep(hosts, 1)
    /\ \E h \in Endpoints :
          sets \in {[s \in SetIds |-> NoSet],
                    [s \in SetIds |-> IF s = MaxSets
                                      THEN NewSet(OtherRef, h, 0)
                                      ELSE NoSet]}
    /\ vms = [u \in VmIds |-> NoVm]
    /\ remote = [i \in Uids |-> "absent"]
    /\ inflight = {}
    /\ last = NoCall
    /\ faults = 0
    /\ edits = 0

NextOwn ==
    \/ \E f \in DepFaults, ns \in FirstOf(DepNewNames) \cup {0} :
          /\ dep.present
          /\ Charge(f \notin DepNoFaults)
          /\ DeploymentReconcile(f, ns, {}, {})
          /\ UNCHANGED edits
    \/ /\ Below
       /\ UNCHANGED <<faults, edits>>
    \/ /\ \E hosts \in HostLists : EditHosts(hosts)
       /\ Edit
       /\ UNCHANGED faults

SpecOwn == InitOwn /\ [][NextOwn]_vars

(* The three reconcilers together, reconciled for every key, also the key  *)
(* of an object that is not in the store, with the fetch of the object     *)
(* failing or not; a client deletes the Deployment.                         *)
MvmFetchFaults ==
    [fail : {"none", "fetch"}, patchFinal : {FALSE}, absentAs : {"notfound"},
     createState : {"PENDING"}]

RSFetchFaults ==
    [fail : {"none", "fetch"}, patchFinal : {FALSE}, patchPath : {FALSE}]

DepFetchFaults ==
    [fail : {"none", "fetch"}, patchFinal : {FALSE}, patchPath : {FALSE}]

NextFetch ==
    /\ \/ \E f \in DepFetchFaults, ns \in FirstOf(DepNewNames) :
             DeploymentReconcile(f, IF f.fail = "fetch" THEN 0 ELSE ns,
                                 IF f.fail = "fetch" THEN {}
                                 ELSE DepDeleteTargets, {})
       \/ \E s \in SetIds, f \in RSFetchFaults :
             \E nu \in FirstOf(RSNewNames(s)) :
             ReplicaSetReconcile(s, f, IF f.fail = "fetch" THEN 0 ELSE nu,
                                 IF f.fail = "fetch" THEN {}
                                 ELSE RSDeleteTargets(s), {})
       \/ \E u \in VmIds, f \in MvmFetchFaults : MicrovmReconcile(u, f)
       \/ \E i \in Uids, to \in {"CREATED", "absent"} : ProvisionerStep(i, to)
       \/ DeleteDeployment
    /\ UNCHANGED <<faults, edits>>

SpecFetch == Init /\ [][NextFetch]_vars

----------------------------------------------------------------------------
(* Claims about the Microvm reconciler.                                     *)

(* The latest call was a Reconcile of Microvm u that took the given path.  *)
MvmCalled(u, path) ==
    last.ctrl = "mvm" /\ last.key = u /\ last.path = path

(* The step takes Microvm u's finalizer away: the object had it and has it *)
(* no more, or has left the store.                                          *)
FinalizerReleased(u) ==
    /\ vms[u].present /\ vms[u].finalizer
    /\ ~vms'[u].present \/ ~vms'[u].finalizer

(* C1: a Microvm's finalizer is removed only by a delete-path reconcile    *)
(* whose provisioner lookup reported no unit (a not-found error or an      *)
(* empty answer), and then the provisioner holds no unit under the         *)
(* Microvm's provider id; never by a call whose lookup found a unit, in    *)
(* any state, or failed with another error.                                 *)
C1_NoPrematureFinalizerRelease ==
    [][\A u \in VmIds :
         FinalizerReleased(u) =>
            /\ last'.ctrl = "mvm" /\ last'.key = u /\ last'.path = "delete"
            /\ last'.lookup \in {"notfound", "nil"}
            /\ GetInstanceID(vms[u]) # 0 =>
                  remote[GetInstanceID(vms[u])] = "absent"]_vars

(* A delete-path reconcile of a Microvm that names a unit (its provider id *)
(* is set) found the unit gone and released the finalizer: the object has  *)
(* left the store.                                                          *)
C1_Witness ==
    /\ MvmCalled(1, "delete") /\ last.branch = "released"
    /\ last.lookup = "notfound" /\ last.uid # 0 /\ last.persisted
    /\ ~vms[1].present

(* C9: a normal-path reconcile that reaches the state mapping with the     *)
(* provisioner state CREATED returns no requeue and no error and leaves    *)
(* VMState running and ready true with a true condition; with PENDING it   *)
(* returns requeue-after-interval and no error and leaves VMState pending  *)
(* and ready false with the pending reason.  The finalizer is in the       *)
(* stored object in both cases; the status is in it when the deferred      *)
(* patch succeeded.                                                         *)
C9_StateMappingSuccess ==
    \A u \in VmIds :
       MvmCalled(u, "normal") /\ last.branch = "parsed" =>
          /\ last.pstate = "CREATED" =>
                /\ last.requeueAfter = 0 /\ last.err = "none"
                /\ vms[u].present /\ vms[u].finalizer
                /\ last.persisted =>
                      /\ vms[u].vmState = "running" /\ vms[u].ready
                      /\ vms[u].cond = "True"
          /\ last.pstate = "PENDING" =>
                /\ last.requeueAfter = requeuePeriod /\ last.err = "none"
                /\ vms[u].present /\ vms[u].finalizer
                /\ last.persisted =>
                      /\ vms[u].vmState = "pending" /\ ~vms[u].ready
                      /\ vms[u].cond = MicrovmPendingReason

(* A reconcile found the unit CREATED and persisted the ready status.      *)
C9_Witness ==
    /\ MvmCalled(1, "normal") /\ last.branch = "parsed"
    /\ last.pstate = "CREATED" /\ last.lookup = "found" /\ last.persisted
    /\ vms[1].ready /\ vms[1].vmState = "running"

(* C10: when the provisioner reports the unit FAILED, the reconcile sets   *)
(* VMState failed and ready false with the provision-failed reason,        *)
(* returns an error and returns requeue-after-the-fixed-interval.          *)
C10_FailedRequeues ==
    \A u \in VmIds :
       /\ MvmCalled(u, "normal") /\ last.branch = "parsed"
       /\ last.pstate = "FAILED"
       => /\ last.err = "errMicrovmFailed"
          /\ last.requeueAfter = requeuePeriod
          /\ last.persisted =>
                /\ vms[u].vmState = "failed" /\ ~vms[u].ready
                /\ vms[u].cond = MicrovmProvisionFailedReason

(* The positions in the operations of a call at which the provisioner's   *)
(* Delete was called, with or without success.                              *)
DeleteCalls(ops) ==
    {i \in 1..Len(ops) : ops[i] \in {"delete", "deleteErr"}}

(* C15: a delete-path reconcile whose lookup finds the unit marks the      *)
(* Microvm not ready with the deleting reason and persists that before any *)
(* Delete call: a Delete is called at most once, after a patch that        *)
(* succeeded, and only for a unit that is not DELETING already.  When the  *)
(* call returns no error it has called Delete exactly once for the         *)
(* Microvm's unit if that was not DELETING, and not at all if it was; the  *)
(* unit is DELETING afterwards, the stored Microvm has the finalizer and   *)
(* is not ready with the deleting reason, and the result is                *)
(* requeue-after-the-fixed-interval.                                        *)
C15_DeleteWithUnitPresent ==
    [][\A u \in VmIds :
         /\ last'.ctrl = "mvm" /\ last'.key = u /\ last'.path = "delete"
         /\ last'.lookup = "found"
         => LET uid == GetInstanceID(vms[u])
                calls == DeleteCalls(last'.ops)
            IN /\ Cardinality(calls) <= 1
               /\ \A i \in calls :
                     /\ remote[uid] # "DELETING"
                     /\ \E j \in 1..(i - 1) : last'.ops[j] = "patch"
                     /\ ~vms'[u].ready
                     /\ vms'[u].cond \in {MicrovmDeletingReason,
                                          MicrovmDeleteFailedReason}
               /\ vms'[u].present /\ vms'[u].finalizer
               /\ last'.err = "none" =>
                     /\ Cardinality(calls) =
                           (IF remote[uid] = "DELETING" THEN 0 ELSE 1)
                     /\ \A i \in calls : last'.ops[i] = "delete"
                     /\ remote'[uid] = "DELETING"
                     /\ ~vms'[u].ready
                     /\ vms'[u].cond = MicrovmDeletingReason
                     /\ last'.requeueAfter = requeuePeriod]_vars

(* A delete-path reconcile of a Microvm that was ready found its unit      *)
(* CREATED and called Delete for it.                                        *)
C15_Witness ==
    /\ MvmCalled(1, "delete") /\ last.branch = "deleted"
    /\ last.pstate = "CREATED" /\ last.err = "none"
    /\ vms[1].vmState = "running" /\ ~vms[1].ready
    /\ vms[1].cond = MicrovmDeletingReason /\ vms[1].finalizer
    /\ remote[last.uid] = "DELETING"

(* C16: when the provisioner's Delete fails on the delete path, the        *)
(* reconcile returns that error and asks for no requeue interval, the      *)
(* stored Microvm keeps the finalizer and is not ready, and its ready      *)
(* condition is false with the delete-failed reason once the deferred      *)
(* patch persisted it.                                                      *)
C16_DeleteFailureSurfaced ==
    \A u \in VmIds :
       /\ MvmCalled(u, "delete")
       /\ \E i \in 1..Len(last.ops) : last.ops[i] = "deleteErr"
       => /\ last.err = "delete"
          /\ vms[u].present /\ vms[u].finalizer /\ vms[u].deleting
          /\ ~vms[u].ready
          /\ last.persisted => vms[u].cond = MicrovmDeleteFailedReason
          /\ remote[last.uid] \notin {"absent", "DELETING"}

(* The Delete for the unit of a Microvm that was ready failed, and the     *)
(* delete-failed condition was persisted.                                   *)
C16_Witness ==
    /\ MvmCalled(1, "delete") /\ last.branch = "delete"
    /\ last.err = "delete" /\ last.persisted
    /\ vms[1].vmState = "running" /\ ~vms[1].ready
    /\ vms[1].cond = MicrovmDeleteFailedReason /\ vms[1].finalizer

(* C17: a delete-path reconcile whose lookup reports the unit not found,   *)
(* or answers with no unit, calls no Delete and returns no requeue and no  *)
(* error; it removes the finalizer, and once the deferred patch persisted  *)
(* that the Microvm has left the store.                                     *)
C17_DeleteWithUnitAbsent ==
    [][\A u \in VmIds :
         /\ last'.ctrl = "mvm" /\ last'.key = u /\ last'.path = "delete"
         /\ last'.lookup \in {"notfound", "nil"}
         => /\ DeleteCalls(last'.ops) = {}
            /\ last'.requeueAfter = 0 /\ last'.err = "none"
            /\ remote' = remote
            /\ last'.persisted => ~vms'[u].present
            /\ ~last'.persisted => vms'[u] = vms[u]]_vars

(* A delete-path reconcile got an empty answer for the unit of a Microvm   *)
(* that had one, and the Microvm has left the store.                        *)
C17_Witness ==
    /\ MvmCalled(1, "delete") /\ last.branch = "released"
    /\ last.lookup = "nil" /\ last.uid # 0 /\ last.persisted
    /\ last.requeueAfter = 0 /\ last.err = "none"
    /\ ~vms[1].present /\ remote[last.uid] = "absent"

(* The provisioner states that the switch of parseMicroVMState names.      *)
KnownStates == {"CREATED", "PENDING", "FAILED", "DELETING"}

(* C11: when the provisioner reports a state other than CREATED, PENDING,  *)
(* FAILED or DELETING, the normal-path reconcile returns the unknown-state *)
(* error together with requeue-after-the-fixed-interval, and the persisted *)
(* Microvm has VMState unknown and ready false with the unknown-state      *)
(* reason.                                                                  *)
C11_UnknownStateRequeuesWithError ==
    \A u \in VmIds :
       /\ MvmCalled(u, "normal") /\ last.branch = "parsed"
       /\ last.pstate \notin KnownStates
       => /\ last.err = "errMicrovmUnknownState"
          /\ last.requeueAfter = requeuePeriod
          /\ vms[u].present /\ vms[u].finalizer
          /\ last.persisted =>
                /\ vms[u].vmState = "unknown" /\ ~vms[u].ready
                /\ vms[u].cond = MicrovmUnknownStateReason

(* A reconcile found the unit in a state it does not know and persisted    *)
(* the unknown status.                                                      *)
C11_Witness ==
    /\ MvmCalled(1, "normal") /\ last.branch = "parsed"
    /\ last.pstate = "OTHER" /\ last.lookup = "found" /\ last.persisted
    /\ vms[1].vmState = "unknown" /\ ~vms[1].ready
    /\ last.err = "errMicrovmUnknownState"

(* C12: when the provisioner reports the unit DELETING on the normal path, *)
(* the reconcile leaves VMState as it was, the Microvm's ready flag is     *)
(* false after the reconcile, also when it was true before, and the result *)
(* is requeue-after-interval with no error.                                 *)
C12_DeletingNotReady ==
    [][\A u \in VmIds :
         /\ last'.ctrl = "mvm" /\ last'.key = u /\ last'.path = "normal"
         /\ last'.branch = "parsed" /\ last'.pstate = "DELETING"
         => /\ last'.requeueAfter = requeuePeriod /\ last'.err = "none"
            /\ vms'[u].vmState = vms[u].vmState
            /\ last'.persisted => ~vms'[u].ready]_vars

(* The object that the call recorded in "last" of the next state was for   *)
(* is in the store before the call.                                         *)
KeyPresent ==
    IF last'.ctrl = "mvm" THEN vms[last'.key].present
    ELSE IF last'.ctrl = "rs" THEN sets[last'.key].present
    ELSE dep.present

(* C13: for each of the three controllers, a Reconcile for a key whose     *)
(* object is not in the store returns no requeue and no error and makes no *)
(* store write and no provisioner call; a fetch that fails otherwise is    *)
(* returned as an error, and nothing is written either.                     *)
C13_MissingObjectIsNoop ==
    [][/\ last'.ctrl # "none" /\ ~KeyPresent =>
             /\ last'.path = "missing"
             /\ last'.requeueAfter = 0 /\ last'.err = "none"
             /\ last'.ops = <<>>
             /\ UNCHANGED <<dep, sets, vms, remote, inflight>>
       /\ last'.path = "missing" => ~KeyPresent
       /\ last'.path = "fetcherr" =>
             /\ last'.err = "fetch"
             /\ UNCHANGED <<dep, sets, vms, remote, inflight>>]_vars

(* The Deployment, its ReplicaSets and their Microvms have left the store  *)
(* and the Deployment's key is reconciled once more.                        *)
C13_Witness ==
    /\ last.ctrl = "dep" /\ last.path = "missing"
    /\ ~dep.present
    /\ last.requeueAfter = 0 /\ last.err = "none"
    /\ \A s \in SetIds : ~sets[s].present

----------------------------------------------------------------------------
(* Claims about the ReplicaSet reconciler.                                  *)

(* The latest step was a Reconcile of ReplicaSet s that took the given     *)
(* path.                                                                    *)
RSCalled(s, path) ==
    last.ctrl = "rs" /\ last.key = s /\ last.path = path

(* The Microvms in the store that ReplicaSet s controls.                    *)
OwnedVms(store, s) == {u \in VmIds : store[u].present /\ store[u].owner = s}

(* C2: the ReplicaSet controller removes a ReplicaSet's finalizer only     *)
(* when the store holds no Microvm owned by that ReplicaSet at that        *)
(* moment, whatever the interleaving of normal reconciles, a client's      *)
(* delete of the ReplicaSet and delete reconciles.                          *)
C2_FinalizerBlocksRemoval ==
    [][\A s \in SetIds :
         /\ sets[s].present /\ sets[s].finalizer
         /\ ~sets'[s].present \/ ~sets'[s].finalizer
         => OwnedVms(vms, s) = {}]_vars

(* C4: one step adds at most one Microvm to those a ReplicaSet owns, and   *)
(* only a normal-path reconcile of the ReplicaSet that listed fewer than   *)
(* desired adds one; every normal-path reconcile that returns no error and *)
(* listed fewer Microvms than desired adds exactly one, whether or not the *)
(* listed ones are ready.                                                   *)
C4_OneUnitPerReconcile ==
    [][\A s \in SetIds :
         LET n == Cardinality(OwnedVms(vms, s))
             m == Cardinality(OwnedVms(vms', s))
         IN /\ m <= n + 1
            /\ m = n + 1 =>
                  /\ last'.ctrl = "rs" /\ last'.key = s
                  /\ last'.path = "normal" /\ last'.branch = "create"
                  /\ last'.listed = n /\ n < sets[s].replicas
            /\ /\ last'.ctrl = "rs" /\ last'.key = s
               /\ last'.path = "normal" /\ last'.err = "none"
               /\ last'.listed < sets[s].replicas
               => m = n + 1]_vars

(* A normal-path reconcile created the second Microvm of a ReplicaSet      *)
(* while the first one was not ready.                                       *)
C4_Witness ==
    /\ RSCalled(1, "normal") /\ last.branch = "create"
    /\ last.listed = 1 /\ last.listedReady = 0
    /\ Cardinality(OwnedVms(vms, 1)) = 2

----------------------------------------------------------------------------
(* Claims about the Deployment reconciler and the three tiers together.    *)

(* The latest step was a Reconcile of the Deployment that took the given   *)
(* path.                                                                    *)
DepCalled(path) == last.ctrl = "dep" /\ last.path = path

(* The ReplicaSets in the store that the Deployment controls.              *)
OwnedSets(store) ==
    {s \in SetIds : store[s].present /\ store[s].owner = DepRef}

(* C3: the Deployment's finalizer is removed only by a delete-path         *)
(* reconcile whose listing of owned ReplicaSets is empty, and then the     *)
(* store holds no ReplicaSet the Deployment controls, terminating or not.  *)
C3_DepFinalizerBlocksRemoval ==
    [][/\ dep.present /\ dep.finalizer
       /\ ~dep'.present \/ ~dep'.finalizer
       => /\ last'.ctrl = "dep" /\ last'.path = "delete"
          /\ last'.listed = 0
          /\ OwnedSets(sets) = {}]_vars

(* A delete-path reconcile of a Deployment that had ReplicaSets (an        *)
(* earlier call left a delete of one running) listed none and released the *)
(* finalizer: the Deployment has left the store.                            *)
C3_Witness ==
    /\ DepCalled("delete") /\ last.branch = "released" /\ last.listed = 0
    /\ faults = 1 /\ ~dep.present

(* C14: a normal-path reconcile of a Deployment whose summed ready         *)
(* replicas differ from the desired total, that has no ReplicaSet on an    *)
(* expired host and fewer hosts with a ReplicaSet than target hosts,       *)
(* creates exactly one ReplicaSet and changes no other: on the first host  *)
(* in spec order that has none, with the Deployment's per-host replicas    *)
(* and template and the Deployment as its controller.  It leaves the       *)
(* Deployment not ready with the incomplete reason and with the finalizer, *)
(* requeues after the interval without error, and the persisted            *)
(* status.replicas is the sum over the ReplicaSets it listed before the    *)
(* create.                                                                  *)
C14_CreatesOneSetOnFirstFreeHost ==
    [][LET owned == OwnedSets(sets)
           active == {sets[s].host : s \in owned}
           created == SumOver(InOrder(owned), sets, "replicas")
           ready == SumOver(InOrder(owned), sets, "ready")
           fresh == {s \in SetIds : sets'[s].present /\ ~sets[s].present}
       IN /\ last'.ctrl = "dep" /\ last'.path = "normal"
          /\ dep.present /\ ~dep.deleting
          /\ ready # dep.replicas * Len(dep.hosts)
          /\ active \subseteq HostSet(dep.hosts)
          /\ Cardinality(active) < Len(dep.hosts)
          => /\ Cardinality(fresh) = 1
             /\ \A s \in SetIds \ fresh : sets'[s] = sets[s]
             /\ \A s \in fresh :
                   /\ \E i \in 1..Len(dep.hosts) :
                         /\ sets'[s].host = dep.hosts[i]
                         /\ dep.hosts[i] \notin active
                         /\ \A j \in 1..(i - 1) : dep.hosts[j] \in active
                   /\ sets'[s].replicas = dep.replicas
                   /\ sets'[s].template = dep.template
                   /\ sets'[s].owner = DepRef
                   /\ ~sets'[s].deleting
             /\ dep'.present /\ ~dep'.ready
             /\ dep'.cond = MicrovmDeploymentIncompleteReason
             /\ dep'.finalizer
             /\ dep'.stReplicas = created
             /\ last'.requeueAfter = requeuePeriod /\ last'.err = "none"
             /\ last'.listed = Cardinality(owned)]_vars

(* The Deployment's second ReplicaSet was created while the first had a    *)
(* Microvm: the recorded status.replicas is that of the listing, 1.        *)
C14_Witness ==
    /\ DepCalled("normal") /\ last.branch = "create" /\ last.listed = 1
    /\ Cardinality(OwnedSets(sets)) = 2
    /\ dep.stReplicas = 1 /\ ~dep.ready /\ dep.finalizer
    /\ dep.cond = MicrovmDeploymentIncompleteReason

(* The number of creates and deletes among the operations of a call.       *)
Changes(ops) ==
    Cardinality({i \in 1..Len(ops) : ops[i] \in {"create", "delete"}})

(* A normal-path Reconcile of ReplicaSet s that returned no error is the    *)
(* step.                                                                    *)
RSNormalStep(s) ==
    /\ last'.ctrl = "rs" /\ last'.key = s /\ last'.path = "normal"
    /\ last'.err = "none"
    /\ sets[s].present

(* The number of ready Microvms among those listed.                        *)
ReadyIn(l, store) == Cardinality({i \in 1..Len(l) : store[l[i]].ready})

(* C18: a normal-path reconcile of a ReplicaSet that finds ready different *)
(* from desired and more owned Microvms than desired deletes exactly one   *)
(* Microvm, the first in the listed order, marks the ReplicaSet not ready  *)
(* with the updating reason, records the counts of the listing in the      *)
(* status, and requeues after the interval.  The reconcile after it (the   *)
(* stored condition is the updating reason) that finds ready equal to      *)
(* desired marks the ReplicaSet ready with status.replicas equal to        *)
(* desired and does not requeue.                                            *)
C18_ScaleDown ==
    [][\A s \in SetIds :
         LET l == getOwnedMicrovms(vms, s)
         IN /\ /\ RSNormalStep(s)
               /\ ReadyIn(l, vms) # sets[s].replicas
               /\ Len(l) > sets[s].replicas
               => /\ Changes(last'.ops) = 1 /\ Issued(last'.ops, "delete")
                  /\ ~vms[l[1]].deleting
                  /\ vms' = [vms EXCEPT
                               ![l[1]] = StoreDelete(vms[l[1]], NoVm)]
                  /\ last'.requeueAfter = requeuePeriod
                  /\ last'.persisted =>
                        /\ ~sets'[s].ready
                        /\ sets'[s].cond = MicrovmReplicaSetUpdatingReason
                        /\ sets'[s].stReplicas = Len(l)
                        /\ sets'[s].stReadyReplicas = ReadyIn(l, vms)
            /\ /\ RSNormalStep(s)
               /\ sets[s].cond = MicrovmReplicaSetUpdatingReason
               /\ ReadyIn(l, vms) = sets[s].replicas
               => /\ last'.requeueAfter = 0
                  /\ last'.persisted =>
                        /\ sets'[s].ready
                        /\ sets'[s].stReplicas = sets[s].replicas]_vars

(* The delete calls a step sent for the objects in targets and for no      *)
(* object in skipped: one call each, and each call has reached the store   *)
(* or is still on its way.                                                  *)
DeletesSent(kind, targets, skipped, store, store2) ==
    /\ Cardinality(DeleteCalls(last'.ops)) = Cardinality(targets)
    /\ \A t \in targets :
          \/ store2[t] # store[t] /\ (~store2[t].present \/ store2[t].deleting)
          \/ GoDelete(kind, t) \in inflight'
    /\ \A t \in skipped :
          /\ store2[t] = store[t]
          /\ GoDelete(kind, t) \in inflight' => GoDelete(kind, t) \in inflight

(* C19: a delete-path reconcile of a ReplicaSet that still has owned       *)
(* Microvms in the store marks the ReplicaSet not ready with the deleting  *)
(* reason, sets readyReplicas to 0, sends a delete for every owned Microvm *)
(* that is not marked for deletion and for none that is, records the       *)
(* number of owned Microvms as status.replicas, keeps the finalizer and    *)
(* returns requeue-after-interval.                                          *)
C19_RSDeleteWithUnitsLeft ==
    [][\A s \in SetIds :
         LET l == getOwnedMicrovms(vms, s)
             owned == {l[i] : i \in 1..Len(l)}
             marked == {u \in owned : vms[u].deleting}
         IN /\ last'.ctrl = "rs" /\ last'.key = s /\ last'.path = "delete"
            /\ last'.err = "none" /\ sets[s].present
            /\ owned # {}
            => /\ sets'[s].present /\ sets'[s].finalizer
               /\ DeletesSent("mvm", owned \ marked, marked, vms, vms')
               /\ last'.requeueAfter = requeuePeriod
               /\ last'.persisted =>
                     /\ ~sets'[s].ready
                     /\ sets'[s].stReadyReplicas = 0
                     /\ sets'[s].stReplicas = Len(l)
                     /\ ~Issued(last'.ops, "deleteErr") =>
                           sets'[s].cond = MicrovmReplicaSetDeletingReason]_vars

(* C20: a delete-path reconcile of a Deployment that still has owned       *)
(* ReplicaSets marks the Deployment not ready with the deleting reason,    *)
(* sets readyReplicas to 0 and status.replicas to the sum of the owned     *)
(* sets' status.replicas, sends a delete for every owned ReplicaSet that   *)
(* is not terminating and for none that is, keeps the finalizer and        *)
(* requeues; a delete-path reconcile that lists no owned ReplicaSet        *)
(* removes the finalizer, so that the Deployment leaves the store, and     *)
(* returns no requeue and no error.                                         *)
C20_DepDeleteWithSetsLeft ==
    [][LET owned == OwnedSets(sets)
           marked == {s \in owned : sets[s].deleting}
       IN /\ last'.ctrl = "dep" /\ last'.path = "delete"
          /\ last'.err = "none" /\ dep.present
          => /\ owned # {} =>
                   /\ dep'.present /\ dep'.finalizer
                   /\ DeletesSent("rs", owned \ marked, marked, sets, sets')
                   /\ last'.requeueAfter = requeuePeriod
                   /\ last'.persisted =>
                         /\ ~dep'.ready
                         /\ dep'.cond = MicrovmDeploymentDeletingReason
                         /\ dep'.stReadyReplicas = 0
                         /\ dep'.stReplicas =
                               SumOver(InOrder(owned), sets, "replicas")
             /\ owned = {} =>
                   /\ DeleteCalls(last'.ops) = {}
                   /\ sets' = sets /\ inflight' = inflight
                   /\ last'.requeueAfter = 0
                   /\ last'.persisted => ~dep'.present]_vars

(* A delete-path reconcile of a Deployment that was ready, with two        *)
(* ReplicaSets of one Microvm each, sent a delete to both and recorded     *)
(* status.replicas 2 and readyReplicas 0.                                   *)
C20_Witness ==
    /\ DepCalled("delete") /\ last.branch = "deleting" /\ last.listed = 2
    /\ dep.present /\ dep.finalizer /\ ~dep.ready
    /\ dep.cond = MicrovmDeploymentDeletingReason
    /\ dep.stReplicas = 2 /\ dep.stReadyReplicas = 0
    /\ \A s \in OwnedSets(sets) :
          sets[s].deleting \/ GoDelete("rs", s) \in inflight

(* C5: a normal-path reconcile of any of the three controllers issues at   *)
(* most one create or delete, of a child object or of the remote unit.     *)
C5_AtMostOneChange ==
    last.path = "normal" => Changes(last.ops) <= 1

(* C6: the Deployment eventually is marked ready with as many ready        *)
(* replicas in its status as replicas per host times hosts.                 *)
C6_Convergence ==
    <>(/\ dep.present /\ dep.ready
       /\ dep.stReadyReplicas = dep.replicas * Len(dep.hosts))

(* A Deployment over two hosts is ready with one ready Microvm on each.    *)
C6_Witness ==
    /\ dep.present /\ dep.ready /\ Len(dep.hosts) = 2
    /\ dep.stReadyReplicas = 2
    /\ \A u \in VmIds : vms[u].present /\ vms[u].ready
    /\ vms[1].host # vms[2].host

(* C7: no two ReplicaSets that the Deployment controls are on the same     *)
(* host, and when a reconcile leaves the Deployment ready the number of    *)
(* its ReplicaSets is the number of its hosts.                              *)
C7_HostExclusivity ==
    /\ \A s, t \in OwnedSets(sets) : s # t => sets[s].host # sets[t].host
    /\ DepCalled("normal") /\ dep.present /\ dep.ready
       => Cardinality(OwnedSets(sets)) = Len(dep.hosts)

(* C8: a normal-path reconcile of the Deployment that starts with an owned *)
(* ReplicaSet on a host the spec no longer names leaves that ReplicaSet    *)
(* deleted (terminating or gone) and the Deployment not ready with the     *)
(* updating reason.                                                         *)
C8_ExpiredSetDeleted ==
    [][\A s \in OwnedSets(sets) :
         /\ dep.present /\ ~dep.deleting
         /\ sets[s].host \notin HostSet(dep.hosts)
         /\ last'.ctrl = "dep" /\ last'.path = "normal"
         => /\ ~sets'[s].present \/ sets'[s].deleting
            /\ ~dep'.ready /\ dep'.cond = MicrovmDeploymentUpdatingReason]_vars

----------------------------------------------------------------------------
(* Claims about deletion, errors and results across the three tiers.       *)

(* C21: when a Deployment is being deleted and no Microvm is left in the   *)
(* store, one reconcile of each owned ReplicaSet that is marked for        *)
(* deletion, then one reconcile of the Deployment, complete the removal    *)
(* without error: the ReplicaSet's reconcile releases its finalizer, so    *)
(* that it leaves the store, whatever created count its status records,    *)
(* and the Deployment's reconcile that then lists no ReplicaSet releases   *)
(* the Deployment.                                                          *)
C21_IdempotentDelete ==
    [][/\ dep.present /\ dep.deleting /\ inflight = {}
       /\ \A u \in VmIds : ~vms[u].present
       => /\ \A s \in OwnedSets(sets) :
                /\ sets[s].deleting
                /\ last'.ctrl = "rs" /\ last'.key = s
                => last'.err = "none" /\ ~sets'[s].present
          /\ OwnedSets(sets) = {} /\ last'.ctrl = "dep"
             => last'.err = "none" /\ ~dep'.present]_vars


(* C22: a Microvm reconcile whose provisioner client factory is missing or *)
(* fails, on the normal path and on the delete path alike, returns an      *)
(* error, makes no provisioner call, and leaves the Microvm as it was:     *)
(* finalizer, provider id and status unchanged.                             *)
C22_FactoryFailureIsFatal ==
    [][\A u \in VmIds :
         /\ last'.ctrl = "mvm" /\ last'.key = u
         /\ last'.path \in {"normal", "delete"}
         /\ last'.branch = "factory"
         => /\ last'.err # "none"
            /\ last'.ops = <<>>
            /\ remote' = remote
            /\ vms'[u] = vms[u]]_vars


(* C23: after a reconcile that returns an error because a store or         *)
(* provisioner call other than a not-found lookup failed (Microvm: Get or  *)
(* Create; ReplicaSet and Deployment: the listing, the create or the       *)
(* delete of a child), the ready condition the store holds for the object  *)
(* is false and carries a reason: the object is never left ready.          *)
C23_TransientErrorMarksNotReady ==
    /\ \A u \in VmIds :
         /\ last.ctrl = "mvm" /\ last.key = u
         /\ last.err \in {"get", "create"}
         /\ last.persisted /\ vms[u].present
         => ~vms[u].ready /\ vms[u].cond # ""
    /\ \A s \in SetIds :
         /\ last.ctrl = "rs" /\ last.key = s
         /\ last.err \in {"list", "create", "delete"}
         /\ last.persisted /\ sets[s].present
         => ~sets[s].ready /\ sets[s].cond # ""
    /\ /\ last.ctrl = "dep"
       /\ last.err \in {"list", "create", "delete"}
       /\ last.persisted /\ dep.present
       => ~dep.ready /\ dep.cond # ""


C25_NonTerminalKeepsFinalizerAndRequeues ==
    /\ \A s \in SetIds :
         /\ RSCalled(s, "normal") /\ last.branch # "ready"
         /\ last.err = "none" /\ last.persisted /\ sets[s].present
         => sets[s].finalizer /\ last.requeueAfter = requeuePeriod
    /\ /\ DepCalled("normal") /\ last.branch # "ready"
       /\ last.err = "none" /\ last.persisted /\ dep.present
       => dep.finalizer /\ last.requeueAfter = requeuePeriod


(* C26: after every step a Microvm in the store that is ready has a        *)
(* provider id, and no step clears the provider id of a Microvm that has  *)
(* one and stays in the store (a unit created anew replaces it).           *)
C26_ReadyHasProviderID ==
    [][\A u \in VmIds :
         /\ vms'[u].present /\ vms'[u].ready
            => GetProviderID(vms'[u]) # <<>>
         /\ vms[u].present /\ vms'[u].present /\ GetProviderID(vms[u]) # <<>>
            => GetProviderID(vms'[u]) # <<>>]_vars

(* A normal reconcile found the unit created and persisted the Microvm as  *)
(* ready, with the provider id an earlier call had stored.                  *)
C26_Witness ==
    /\ MvmCalled(1, "normal") /\ last.persisted /\ last.lookup = "found"
    /\ vms[1].present /\ vms[1].ready
    /\ GetProviderID(vms[1]) = <<vms[1].host, last.uid>>


C28_DeleteFailureReachesParent ==
    [][/\ \A s \in SetIds :
            LET targets == {u \in OwnedVms(vms, s) : ~vms[u].deleting}
            IN /\ /\ last'.ctrl = "rs" /\ last'.key = s
                  /\ last'.branch = "deleting"
                  => /\ Cardinality(DeleteCalls(last'.ops))
                           = Cardinality(targets)
                     /\ /\ Issued(last'.ops, "deleteErr")
                        /\ last'.persisted /\ sets'[s].present
                        => sets'[s].cond = MicrovmReplicaSetDeleteFailedReason
               /\ \A u \in targets :
                     /\ GoDelete("mvm", u) \in inflight \ inflight'
                     /\ vms' = vms /\ sets[s].present
                     => sets'[s].cond = MicrovmReplicaSetDeleteFailedReason
       /\ LET targets == {s \in OwnedSets(sets) : ~sets[s].deleting}
          IN /\ /\ last'.ctrl = "dep" /\ last'.branch = "deleting"
                => /\ Cardinality(DeleteCalls(last'.ops))
                         = Cardinality(targets)
                   /\ /\ Issued(last'.ops, "deleteErr")
                      /\ last'.persisted /\ dep'.present
                      => dep'.cond = MicrovmDeploymentDeleteFailedReason
             /\ \A s \in targets :
                   /\ GoDelete("rs", s) \in inflight \ inflight'
                   /\ sets' = sets /\ dep.present
                   => dep'.cond = MicrovmDeploymentDeleteFailedReason]_vars


(* C29: a reconcile marks a ReplicaSet ready only when the created count   *)
(* and the ready count it records are equal, and equal to the desired      *)
(* count: after a call that marked the ReplicaSet ready and persisted it,  *)
(* status.replicas = status.readyReplicas = spec.replicas, also when the   *)
(* desired count was lowered while some Microvms are not ready.            *)
C29_ReadyMeansAllCreatedReady ==
    \A s \in SetIds :
       /\ RSCalled(s, "normal") /\ last.branch = "ready" /\ last.persisted
       /\ sets[s].present /\ sets[s].ready
       => /\ sets[s].stReplicas = sets[s].stReadyReplicas
          /\ sets[s].stReadyReplicas = sets[s].replicas


(* C30: once a client has changed the Deployment's replicas per host, the  *)
(* hosts unchanged, fair reconciling leads to a state in which every       *)
(* ReplicaSet the Deployment controls asks for the Deployment's replicas   *)
(* per host and the Deployment is ready.                                    *)
C30_ScaleReachesSets ==
    (edits > 0) ~> (/\ dep.present /\ dep.ready
                    /\ \A s \in OwnedSets(sets) :
                          sets[s].replicas = dep.replicas)


----------------------------------------------------------------------------
(* Claims about the recorded counts, the host helpers, the order of the    *)
(* Microvm's calls and the limits of what the controllers delete.          *)

(* C31: after a normal-path reconcile that creates or deletes a child and  *)
(* whose Patch went through, the stored status holds the counts of the     *)
(* listing taken before that change.  For a ReplicaSet these are the       *)
(* number of owned Microvms and of the ready ones among them, so that      *)
(* after a create status.replicas is one less than the Microvms it then    *)
(* owns; for the Deployment they are the sums of status.replicas and of    *)
(* status.readyReplicas over the listed ReplicaSets.                        *)
C31_StatusCountsFromListing ==
    [][/\ \A s \in SetIds :
            /\ RSNormalStep(s) /\ Changes(last'.ops) = 1
            /\ last'.persisted /\ sets'[s].present
            => \E l \in {getOwnedMicrovms(vms, s)} :
                  /\ sets'[s].stReplicas = Len(l)
                  /\ sets'[s].stReadyReplicas = ReadyIn(l, vms)
                  /\ Issued(last'.ops, "create")
                     => sets'[s].stReplicas + 1
                           = Cardinality(OwnedVms(vms', s))
       /\ /\ last'.ctrl = "dep" /\ last'.path = "normal"
          /\ last'.err = "none" /\ Changes(last'.ops) >= 1
          /\ last'.persisted /\ dep'.present
          => \E l \in {getOwnedReplicaSets(sets)} :
                /\ dep'.stReplicas = SumOver(l, sets, "replicas")
                /\ dep'.stReadyReplicas = SumOver(l, sets, "ready")]_vars

(* The Deployment created its second ReplicaSet when the first had one     *)
(* ready Microvm recorded: the stored counts are those of the one listed   *)
(* set.                                                                     *)
C31_Witness ==
    /\ DepCalled("normal") /\ last.branch = "create" /\ last.persisted
    /\ Cardinality(OwnedSets(sets)) = 2
    /\ dep.stReplicas = 1 /\ dep.stReadyReplicas = 1


(* C32: DetermineHost returns the first host of the spec, in the spec's    *)
(* order, that is not a key of setHosts: the host at a position of the     *)
(* spec before which every host is a key.  It returns the error "could not *)
(* find free host" exactly when every host of the spec is a key, and it    *)
(* leaves setHosts as it was.                                               *)
C32_DetermineHostFirstFree ==
    last.ctrl = "scope" /\ last.path = "DetermineHost"
    => /\ last.host = "" <=> HostSet(dep.hosts) \subseteq last.setHosts
       /\ last.host # ""
          => \E i \in 1..Len(dep.hosts) :
                /\ dep.hosts[i] = last.host
                /\ last.host \notin last.setHosts
                /\ \A j \in 1..(i - 1) : dep.hosts[j] \in last.setHosts
       /\ last.setHostsAfter = last.setHosts

(* DetermineHost passed over the first host of the spec, which has a set,  *)
(* and returned the second.                                                 *)
C32_Witness ==
    /\ last.ctrl = "scope" /\ last.path = "DetermineHost"
    /\ Len(dep.hosts) = 2 /\ dep.hosts[1] \in last.setHosts
    /\ last.host = dep.hosts[2] /\ last.host # dep.hosts[1]


(* C33: ExpiredHosts returns exactly the entries of setHosts that are not  *)
(* hosts of the spec, and it does so in the map it was handed, which after *)
(* the call is the result.  The Deployment's reconcile hands it a map of   *)
(* its own, so the map of the hosts that have a set stays whole: a         *)
(* reconcile that creates a set does so because fewer hosts have a set     *)
(* than the spec names, on the first spec host without a set, and never on *)
(* a host that has one; a reconcile that waits counted at least as many    *)
(* hosts with a set as the spec names.                                      *)
C33_ExpiredHostsInPlace ==
    [][/\ last'.ctrl = "scope" /\ last'.path = "ExpiredHosts"
          => /\ last'.hosts
                   = {h \in last'.setHosts : h \notin HostSet(dep.hosts)}
             /\ last'.setHostsAfter = last'.hosts
       /\ last'.ctrl = "dep" /\ last'.path = "normal" /\ dep.present
          => \E active \in {{sets[s].host : s \in OwnedSets(sets)}} :
                /\ last'.branch = "create"
                   => /\ Cardinality(active) < RequiredSets(dep)
                      /\ \A s \in OwnedSets(sets') \ OwnedSets(sets) :
                            /\ sets'[s].host \notin active
                            /\ sets'[s].host = DetermineHost(dep, active)
                /\ last'.branch = "wait"
                   => Cardinality(active) >= RequiredSets(dep)]_vars

(* ExpiredHosts was handed a map with a host of the spec and a host that   *)
(* the spec does not name: the map now holds the second only.               *)
C33_Witness ==
    /\ last.ctrl = "scope" /\ last.path = "ExpiredHosts"
    /\ last.setHosts \cap HostSet(dep.hosts) # {}
    /\ last.hosts # {} /\ last.setHostsAfter = last.hosts
    /\ last.hosts # last.setHosts


(* C34: on the normal path of the Microvm reconciler a Create is called    *)
(* only right after the Patch that stores the finalizer went through, and   *)
(* not at all once that Patch failed: after a call that called Create the  *)
(* stored Microvm has the finalizer, whether or not the Create and the      *)
(* later Patches succeeded.                                                 *)
C34_FinalizerStoredBeforeCreate ==
    [][\A u \in VmIds :
         /\ last'.ctrl = "mvm" /\ last'.key = u /\ last'.path = "normal"
         => \A i \in 1..Len(last'.ops) :
               /\ last'.ops[i] \in {"create", "createErr"}
                  => /\ i > 1 /\ last'.ops[i - 1] = "patch"
                     /\ vms'[u].present /\ vms'[u].finalizer
               /\ last'.ops[i] = "patchErr"
                  => \A j \in 1..Len(last'.ops) :
                        last'.ops[j] \notin {"create", "createErr"}
                        \/ (j < i /\ vms'[u].finalizer)]_vars

(* A reconcile of a new Microvm created the unit and then failed to store  *)
(* the provider id: the store holds the Microvm with the finalizer and     *)
(* without provider id.                                                     *)
C34_Witness ==
    /\ MvmCalled(1, "normal") /\ IssuedCreate(last.ops) /\ ~last.persisted
    /\ last.err = "patch"
    /\ vms[1].present /\ vms[1].finalizer /\ GetProviderID(vms[1]) = <<>>
    /\ \E i \in Uids : remote[i] # "absent"


(* C35: the Microvm reconciler never calls Create for a Microvm while a    *)
(* unit that an earlier Create made for that Microvm is still with the     *)
(* provisioner, also when a Patch failed after that earlier Create.  With  *)
(* one Microvm in the store every unit is that Microvm's.                   *)
C35_NoSecondCreate ==
    [][\A u \in VmIds :
         /\ last'.ctrl = "mvm" /\ last'.key = u
         /\ IssuedCreate(last'.ops)
         => \A i \in Uids : remote[i] = "absent"]_vars


(* C36: a normal-path reconcile of a ReplicaSet sends a delete for a       *)
(* Microvm only when more owned Microvms without deletion mark are in the  *)
(* store than the ReplicaSet desires.                                       *)
C36_DeletesOnlySurplus ==
    [][\A s \in SetIds :
         /\ last'.ctrl = "rs" /\ last'.key = s /\ last'.path = "normal"
         /\ DeleteCalls(last'.ops) # {}
         => Cardinality({u \in OwnedVms(vms, s) : ~vms[u].deleting})
               > RSDesiredReplicas(sets[s])]_vars

(* C37: under fair reconciliation of all three tiers, once the Deployment   *)
(* is marked for deletion, eventually no ReplicaSet and no Microvm is left  *)
(* in the store, no finalizer is held and the Deployment is gone.           *)
C37_CascadeTerminates ==
    (dep.present /\ dep.deleting)
       ~> /\ ~dep.present
          /\ \A s \in SetIds : ~sets[s].present
          /\ \A u \in VmIds : ~vms[u].present

(* Whether no host is named twice in the list.                              *)
PairwiseDistinct(hosts) == Cardinality(HostSet(hosts)) = Len(hosts)

(* C38: with pairwise distinct target hosts, DetermineHost finds a free     *)
(* host whenever no host of the map is expired and the map holds fewer      *)
(* hosts than the spec names, so a Deployment reconcile ends with "could    *)
(* not find free host" only when the host list names a host twice.          *)
C38_DistinctHostsFindFree ==
    /\ (last.ctrl = "dep" /\ last.path = "normal"
           /\ last.branch \in {"create", "createErr", "nohost"}
           /\ PairwiseDistinct(dep.hosts))
          => last.branch # "nohost"
    /\ (last.path = "DetermineHost" /\ PairwiseDistinct(dep.hosts)
           /\ ExpiredHosts(dep, last.setHosts) = {}
           /\ Cardinality(last.setHosts) < RequiredSets(dep))
          => last.host # ""

(* The Deployment, its two distinct hosts one of them with a ReplicaSet,    *)
(* has just created the ReplicaSet of the free host.                        *)
C38_Witness ==
    /\ last.ctrl = "dep" /\ last.branch = "create" /\ last.listed = 1
    /\ PairwiseDistinct(dep.hosts) /\ Len(dep.hosts) = 2
    /\ \E s \in SetIds : sets[s].present /\ sets[s].host = dep.hosts[2]


(* The owned ReplicaSets without deletion mark whose host the Deployment's *)
(* spec no longer names.                                                    *)
OwnedOnExpired(o, store) ==
    {s \in OwnedSets(store) :
        ~store[s].deleting /\ store[s].host \notin HostSet(o.hosts)}

(* C39: a normal-path reconcile of the Deployment sends deletes only to     *)
(* owned ReplicaSets whose host the spec no longer names: every ReplicaSet  *)
(* it marks for deletion or removes is one of those, it sends no more       *)
(* deletes than there are such ReplicaSets, every ReplicaSet it creates is  *)
(* controlled by the Deployment, and it leaves every ReplicaSet it does not *)
(* control as it was.                                                       *)
C39_DeletesOnlyExpiredOwned ==
    [][last'.ctrl = "dep" /\ last'.path = "normal"
       => /\ \A s \in SetIds :
                /\ (/\ sets[s].present /\ ~sets[s].deleting
                    /\ ~sets'[s].present \/ sets'[s].deleting)
                      => s \in OwnedOnExpired(dep, sets)
                /\ (~sets[s].present /\ sets'[s].present)
                      => sets'[s].owner = DepRef
                /\ (sets[s].present /\ sets[s].owner # DepRef)
                      => sets'[s] = sets[s]
          /\ Cardinality(DeleteCalls(last'.ops))
                <= Cardinality(OwnedOnExpired(dep, sets))]_vars

(* The Deployment has just deleted its ReplicaSet on a host its spec no     *)
(* longer names, while the ReplicaSet of another controller on a host the   *)
(* spec does not name either is in the store untouched.                     *)
C39_Witness ==
    /\ last.ctrl = "dep" /\ last.path = "normal" /\ last.branch = "expired"
    /\ DeleteCalls(last.ops) # {}
    /\ \E s \in SetIds :
          /\ sets[s].present /\ sets[s].owner = OtherRef
          /\ ~sets[s].deleting /\ sets[s].host \notin HostSet(dep.hosts)

====
